---- MODULE Spec2Model ----
(***************************************************************************)
(* Antigravity bridge of ouroboros: credential lifecycle                   *)
(* (ouroboros/antigravity_auth.py), protocol translation and multi-        *)
(* endpoint dispatch (ouroboros/antigravity_client.py).                    *)
(*                                                                         *)
(* Specifications over the same variables:                                 *)
(*   Spec       one caller using get_access_token and refresh_access_token *)
(*              against the token endpoint while time passes;              *)
(*   SpecChat   one call of AntigravityClient.chat against the token       *)
(*              endpoint and the ordered generation endpoints;             *)
(*   SpecLogin  one caller using exchange_code against the token endpoint  *)
(*              while time passes;                                         *)
(*   SpecStore  several callers whose _load_stored / _save_stored steps    *)
(*              on the credential file interleave;                         *)
(*   SpecCallback  one login() waiting for the OAuth callback;             *)
(*   SpecState  _encode_state and _decode_state on a verifier and a        *)
(*              project hint;                                              *)
(*   SpecConv   a conversation translated by _openai_to_google and         *)
(*              provider responses parsed by _google_to_openai_message.    *)
(***************************************************************************)
EXTENDS Integers, Sequences, FiniteSets, TLC

\* ------------------------------------------------------- Python values
\* Values whose type the code inspects (isinstance) carry their type:
\*   str   v is the text, a sequence of lexical tokens
\*   int   v is the number
\*   none  None
\*   list  v is the sequence of the elements
\*   dict  v is the sequence of the <<key, value>> items, in insertion order
\* The type field t and the token kind k are written before the fields v and
\* x, so that TLC, which orders the fields of a record by first occurrence,
\* compares two values by their types first.

Str(toks) == [t |-> "str", v |-> toks]
Num(n) == [t |-> "int", v |-> n]
NoneV == [t |-> "none", v |-> 0]
List(xs) == [t |-> "list", v |-> xs]
Dict(items) == [t |-> "dict", v |-> items]

\* Tokens of a text: a word (any run of text that is no JSON), a JSON
\* punctuation mark, a number, null, or a quoted string (with its text).
Word(w) == [k |-> "word", x |-> w]
Punct(c) == [k |-> "punct", x |-> c]
NumTok(n) == [k |-> "num", x |-> n]
NullTok == [k |-> "null", x |-> 0]
StrLit(toks) == [k |-> "strlit", x |-> toks]

VARIABLES
    \* ---- Spec: the credential record, the clock, the provider, one caller
    stored,        \* record held by the credential file ({} when there is none)
    now,           \* time.time()
    issued,        \* number of tokens the token endpoint has issued so far
    calls,         \* the last two get_access_token / refresh_access_token calls
    opsDone,       \* number of operations the caller has started
    pc,            \* position of the caller inside chat
    idx,           \* index in ENDPOINTS of the endpoint being tried
    access_token,  \* chat's local access_token (the Authorization header)
    last_error,    \* chat's last_error
    outcome,       \* what chat gave its caller: a result or an error
    log,           \* requests chat sent to generation endpoints, with the answers
    \* ---- SpecConv: one conversation
    messages,      \* the caller's history of OpenAI-style messages
    origin,        \* per message, the provider response it was parsed from
    body,          \* the request body built by the latest chat
    sentLen,       \* number of messages that body was built from
    \* ---- SpecStore: the credential file and the callers sharing it
    file,          \* text of _TOKEN_FILE, a sequence of tokens
    ppc,           \* per caller, its position in the operation it runs
    rtArg,         \* per caller, the refresh_token argument of its refresh
    local,         \* per caller, the dict "stored" of its refresh
    wtext,         \* per caller, the text its _save_stored writes
    wpos,          \* per caller, the offset of its open file in _save_stored
    old,           \* per caller, the text of the file when its save began
    seen,          \* per caller, what its latest _load_stored returned
    provider,      \* what the token endpoint has issued: the latest
                   \* refresh_token and the grants (access_token, expires_at)
    started,       \* the operations the callers have started
    \* ---- the specifications of pure functions
    fnIn,          \* the arguments of the function
    fnOut,         \* what the function has computed from them so far
    \* ---- SpecCallback: one interactive login
    login          \* position of login(), its verifier, the callback received

chatVars == <<stored, now, issued, calls, opsDone, pc, idx, access_token,
              last_error, outcome, log>>

convVars == <<messages, origin, body, sentLen>>

storeVars == <<file, ppc, rtArg, local, wtext, wpos, old, seen, provider,
               started>>

fnVars == <<fnIn, fnOut, login>>

vars == <<chatVars, convVars, storeVars, fnVars>>

\* ------------------------------------------------------------------ bounds

\* number of clock ticks (each of SAFETY_MARGIN seconds) the model lets pass
MaxTicks == 2
\* number of operations (API calls) the caller starts
MaxOps == 2
\* number of turns the caller puts into a conversation
MaxTurns == 5

\* SpecState: the verifier has at most MaxVerifier characters, the project
\* hint at most MaxHint
MaxVerifier == 2
MaxHint == 1

\* SpecSchema: values are nested at most MaxNest deep below the top-level
\* schema
MaxNest == 3

\* the longest list of parts in a provider response of SpecParse
MaxParts == 3

\* ------------------------------------------------------- program constants

\* "- 60" in exchange_code and refresh_access_token: the safety margin
SAFETY_MARGIN == 60
\* int(token_data.get("expires_in", 3600))
DEFAULT_EXPIRES_IN == 3600
\* resp.text[:200] in last_error
ERR_EXCERPT == 200

ENDPOINTS == <<"daily-cloudcode-pa.sandbox", "autopush-cloudcode-pa.sandbox",
               "cloudcode-pa">>

\* ------------------------------------------------------------ Python dicts

None == "None"

\* the empty dict {}
EmptyDict == [k \in {} |-> None]

\* d.get(k, dflt)
Get(d, k, dflt) == IF k \in DOMAIN d THEN d[k] ELSE dflt

\* d[k] = v
Put(d, k, v) == [x \in (DOMAIN d) \cup {k} |-> IF x = k THEN v ELSE d[x]]

\* bool(x) of a Python value
Truthy(x) ==
    CASE x.t = "none" -> FALSE
      [] x.t = "int" -> x.v # 0
      [] OTHER -> x.v # <<>>

\* d[key] = val on the items of a dict
SetItem(items, key, val) ==
    IF \E i \in DOMAIN items : items[i][1] = key
    THEN [i \in DOMAIN items |->
            IF items[i][1] = key THEN <<key, val>> ELSE items[i]]
    ELSE Append(items, <<key, val>>)

\* the flattening of a sequence of token sequences, sep between them
RECURSIVE Join(_, _)
Join(seqs, sep) ==
    IF seqs = <<>> THEN <<>>
    ELSE IF Len(seqs) = 1 THEN seqs[1]
    ELSE seqs[1] \o sep \o Join(Tail(seqs), sep)

\* json.dumps(x)
RECURSIVE Dumps(_)
Dumps(x) ==
    CASE x.t = "str" -> <<StrLit(x.v)>>
      [] x.t = "int" -> <<NumTok(x.v)>>
      [] x.t = "none" -> <<NullTok>>
      [] x.t = "list" ->
           <<Punct("[")>>
           \o Join([i \in DOMAIN x.v |-> Dumps(x.v[i])], <<Punct(",")>>)
           \o <<Punct("]")>>
      [] OTHER ->
           <<Punct("{")>>
           \o Join([i \in DOMAIN x.v |->
                      <<StrLit(x.v[i][1]), Punct(":")>> \o Dumps(x.v[i][2])],
                   <<Punct(",")>>)
           \o <<Punct("}")>>

ParseFail == [ok |-> FALSE, val |-> NoneV, next |-> 0]

\* The JSON decoder on the tokens of a text from position i on: the value
\* read and the position after it, or a failure (JSONDecodeError).
RECURSIVE ParseValue(_, _)
RECURSIVE ParseElems(_, _, _)
RECURSIVE ParseMembers(_, _, _)
ParseValue(toks, i) ==
    IF i > Len(toks) THEN ParseFail
    ELSE LET tk == toks[i]
         IN  CASE tk.k = "num" -> [ok |-> TRUE, val |-> Num(tk.x), next |-> i + 1]
               [] tk.k = "null" -> [ok |-> TRUE, val |-> NoneV, next |-> i + 1]
               [] tk.k = "strlit" -> [ok |-> TRUE, val |-> Str(tk.x), next |-> i + 1]
               [] tk = Punct("[") ->
                    IF i + 1 <= Len(toks) /\ toks[i + 1] = Punct("]")
                    THEN [ok |-> TRUE, val |-> List(<<>>), next |-> i + 2]
                    ELSE ParseElems(toks, i + 1, <<>>)
               [] tk = Punct("{") ->
                    IF i + 1 <= Len(toks) /\ toks[i + 1] = Punct("}")
                    THEN [ok |-> TRUE, val |-> Dict(<<>>), next |-> i + 2]
                    ELSE ParseMembers(toks, i + 1, <<>>)
               [] OTHER -> ParseFail

\* the elements of a list after "[" or ",", acc holding those read so far
ParseElems(toks, i, acc) ==
    LET e == ParseValue(toks, i)
    IN  IF ~e.ok \/ e.next > Len(toks) THEN ParseFail
        ELSE IF toks[e.next] = Punct("]")
             THEN [ok |-> TRUE, val |-> List(Append(acc, e.val)),
                   next |-> e.next + 1]
        ELSE IF toks[e.next] = Punct(",")
             THEN ParseElems(toks, e.next + 1, Append(acc, e.val))
        ELSE ParseFail

\* the members of an object after "{" or ",", acc holding those read so far
ParseMembers(toks, i, acc) ==
    IF i + 1 > Len(toks) \/ toks[i].k # "strlit" \/ toks[i + 1] # Punct(":")
    THEN ParseFail
    ELSE LET e == ParseValue(toks, i + 2)
             items == SetItem(acc, toks[i].x, e.val)
         IN  IF ~e.ok \/ e.next > Len(toks) THEN ParseFail
             ELSE IF toks[e.next] = Punct("}")
                  THEN [ok |-> TRUE, val |-> Dict(items), next |-> e.next + 1]
             ELSE IF toks[e.next] = Punct(",")
                  THEN ParseMembers(toks, e.next + 1, items)
             ELSE ParseFail

\* json.loads(text): ok is FALSE when it raises JSONDecodeError
Loads(text) ==
    LET r == ParseValue(text, 1)
    IN  IF r.ok /\ r.next = Len(text) + 1
        THEN [ok |-> TRUE, val |-> r.val]
        ELSE [ok |-> FALSE, val |-> NoneV]

\* -------------------------------------- message conversion: OpenAI -> Google
\* Messages, tool calls, wire turns and parts are dicts with string keys
\* (functions on the keys present); names, ids and thought signatures are
\* strings the code only compares; every text and every value whose type the
\* code inspects is a Python value as above.

\* the text "{}"
EmptyObjectText == <<Punct("{"), Punct("}")>>

\* f"call_{idx}"
CallId(n) == <<"call_0", "call_1", "call_2", "call_3", "call_4">>[n + 1]

\* str(x)
StrOf(x) ==
    CASE x.t = "str" -> x.v
      [] x.t = "none" -> <<Word("None")>>
      [] OTHER -> Dumps(x)

\* content if isinstance(content, str) else json.dumps(content)
TextOf(content) == IF content.t = "str" THEN content.v ELSE Dumps(content)

\* _resolve_fn_name: the loop over reversed(messages), from message i down
RECURSIVE ResolveFrom(_, _, _)
ResolveFrom(msgs, i, tool_call_id) ==
    IF i = 0 THEN tool_call_id
    ELSE LET msg == msgs[i]
             tcs == Get(msg, "tool_calls", <<>>)
             hit == {j \in DOMAIN tcs : Get(tcs[j], "id", "") = tool_call_id}
         IN  IF Get(msg, "role", "") = "assistant" /\ tcs # <<>> /\ hit # {}
             THEN LET j == CHOOSE m \in hit : \A o \in hit : m <= o
                  IN  Get(Get(tcs[j], "function", EmptyDict), "name",
                          tool_call_id)
             ELSE ResolveFrom(msgs, i - 1, tool_call_id)

\* _resolve_fn_name(messages, tool_call_id)
_resolve_fn_name(msgs, tool_call_id) ==
    ResolveFrom(msgs, Len(msgs), tool_call_id)

\* the function-call part without the "Restore thoughtSignature" lines
FcPart_NoSignature(tc, n) ==
    LET fn == Get(tc, "function", EmptyDict)
        raw == Get(fn, "arguments", Str(EmptyObjectText))
        parsed == Loads(raw.v)
        args == IF raw.t # "str" THEN raw
                ELSE IF parsed.ok THEN parsed.val
                ELSE Dict(<< <<(<<Word("raw")>>), raw>> >>)
    IN  [functionCall |-> [name |-> Get(fn, "name", ""), args |-> args,
                           id |-> Get(tc, "id", CallId(n))]]

\* the function-call part that carries the arguments as the text they came
\* in
FcPart_RawArgs(tc, n) ==
    LET fn == Get(tc, "function", EmptyDict)
        fc_part == [functionCall |->
                      [name |-> Get(fn, "name", ""),
                       args |-> Get(fn, "arguments", Str(EmptyObjectText)),
                       id |-> Get(tc, "id", CallId(n))]]
        ts == Get(tc, "_thought_signature", "")
    IN  IF ts # "" THEN Put(fc_part, "thoughtSignature", ts) ELSE fc_part

\* The function-call part of tool call tc, the n-th (from 0) of its turn
\* (the body of "for idx, tc in enumerate(msg['tool_calls'])").
FcPart(tc, n) ==
    LET fn == Get(tc, "function", EmptyDict)
        raw == Get(fn, "arguments", Str(EmptyObjectText))
        parsed == Loads(raw.v)
        args == IF raw.t # "str" THEN raw
                ELSE IF parsed.ok THEN parsed.val
                ELSE Dict(<< <<(<<Word("raw")>>), raw>> >>)
        fc_part == [functionCall |-> [name |-> Get(fn, "name", ""),
                                      args |-> args,
                                      id |-> Get(tc, "id", CallId(n))]]
        ts == Get(tc, "_thought_signature", "")
    IN  IF ts # "" THEN Put(fc_part, "thoughtSignature", ts) ELSE fc_part

\* the response of a tool result without the wrapping of lists and scalars
ToolResponseData_NoWrap(content) ==
    LET text == TextOf(content)
        parsed == Loads(text)
    IN  IF parsed.ok THEN parsed.val
        ELSE Dict(<< <<(<<Word("result")>>), Str(text)>> >>)

\* response_data of a tool-result turn with this content
ToolResponseData(content) ==
    LET text == TextOf(content)
        parsed == Loads(text)
        response_data == IF parsed.ok THEN parsed.val
                         ELSE Dict(<< <<(<<Word("result")>>), Str(text)>> >>)
    IN  IF response_data.t # "dict"
        THEN Dict(<< <<(<<Word("result")>>), response_data>> >>)
        ELSE response_data

\* items[key] of a dict value, dflt when the key is missing
DictGet(d, key, dflt) ==
    IF \E i \in DOMAIN d.v : d.v[i][1] = key
    THEN d.v[CHOOSE i \in DOMAIN d.v : d.v[i][1] = key][2]
    ELSE dflt

\* The parts of one item of a multimodal content list (none for a dict of
\* another type).
MultimodalItem(item) ==
    IF item.t # "dict" THEN <<[text |-> Str(StrOf(item))]>>
    ELSE LET type == DictGet(item, <<Word("type")>>, NoneV)
         IN  IF type = Str(<<Word("text")>>)
             THEN <<[text |-> DictGet(item, <<Word("text")>>, NoneV)]>>
             ELSE IF type = Str(<<Word("image_url")>>)
             THEN LET url == DictGet(DictGet(item, <<Word("image_url")>>,
                                             Dict(<<>>)),
                                     <<Word("url")>>, Str(<<>>)).v
                  IN  IF url # <<>> /\ url[1] = Word("data:")
                      THEN \* "data:" mime ";base64," data
                           <<[inlineData |-> [mimeType |-> <<url[2]>>,
                                              data |-> SubSeq(url, 4, Len(url))]]>>
                      ELSE <<[fileData |-> [fileUri |-> url]]>>
             ELSE <<>>

RECURSIVE MultimodalParts(_)
MultimodalParts(items) ==
    IF items = <<>> THEN <<>>
    ELSE MultimodalItem(Head(items)) \o MultimodalParts(Tail(items))

\* The wire turn of the message msgs[i] when it is no system message.
WireTurn(msgs, i) ==
    LET msg == msgs[i]
        role == Get(msg, "role", "user")
        content == Get(msg, "content", Str(<<>>))
        google_role == IF role = "user" THEN "user" ELSE "model"
        tcs == Get(msg, "tool_calls", <<>>)
    IN  IF role = "assistant" /\ tcs # <<>>
        THEN [role |-> google_role,
              parts |-> (IF Truthy(content) THEN <<[text |-> content]>>
                         ELSE <<>>)
                        \o [j \in DOMAIN tcs |-> FcPart(tcs[j], j - 1)]]
        ELSE IF role = "tool"
        THEN LET tool_call_id == Get(msg, "tool_call_id", "")
                 given == Get(msg, "name", "")
                 name == IF given = ""
                         THEN _resolve_fn_name(msgs, tool_call_id)
                         ELSE given
             IN  [role |-> "user",
                  parts |-> <<[functionResponse |->
                                 [name |-> name, id |-> tool_call_id,
                                  response |-> ToolResponseData(content)]]>>]
        ELSE [role |-> google_role,
              parts |-> CASE content.t = "str" -> <<[text |-> content]>>
                          [] content.t = "list" -> MultimodalParts(content.v)
                          [] OTHER -> <<[text |-> Str(StrOf(content))]>>]

\* the loop that puts each wire turn before those built so far
RECURSIVE ConvertFrom_Prepend(_, _, _)
ConvertFrom_Prepend(msgs, i, acc) ==
    IF i > Len(msgs) THEN acc
    ELSE IF Get(msgs[i], "role", "user") = "system"
    THEN ConvertFrom_Prepend(msgs, i + 1,
            [acc EXCEPT !.system_instruction =
                [parts |-> <<[text |->
                    Str(TextOf(Get(msgs[i], "content", Str(<<>>))))]>>]])
    ELSE ConvertFrom_Prepend(msgs, i + 1,
            [acc EXCEPT !.contents = <<WireTurn(msgs, i)>> \o @])

\* The loop of _openai_to_google over messages[i..]: acc holds
\* system_instruction (the empty dict for None) and contents.
RECURSIVE ConvertFrom(_, _, _)
ConvertFrom(msgs, i, acc) ==
    IF i > Len(msgs) THEN acc
    ELSE IF Get(msgs[i], "role", "user") = "system"
    THEN ConvertFrom(msgs, i + 1,
            [acc EXCEPT !.system_instruction =
                [parts |-> <<[text |->
                    Str(TextOf(Get(msgs[i], "content", Str(<<>>))))]>>]])
    ELSE ConvertFrom(msgs, i + 1,
            [acc EXCEPT !.contents = Append(@, WireTurn(msgs, i))])

\* _openai_to_google(messages, tools) for a call without tools
_openai_to_google(msgs) ==
    LET r == ConvertFrom(msgs, 1,
                         [system_instruction |-> EmptyDict, contents |-> <<>>])
        b == [contents |-> r.contents]
    IN  IF r.system_instruction # EmptyDict
        THEN Put(b, "systemInstruction", r.system_instruction)
        ELSE b

\* -------------------------------------- response conversion: Google -> OpenAI

\* the tool-call entry without the "Preserve thoughtSignature" lines
ToolCallEntry_NoSignature(part, tc_index) ==
    LET fc == part["functionCall"]
    IN  [id |-> Get(fc, "id", CallId(tc_index)), type |-> "function",
         function |-> [name |-> Get(fc, "name", ""),
                       arguments |-> Str(Dumps(Get(fc, "args", Dict(<<>>))))]]

\* the tool-call entry that takes the id from the provider only
ToolCallEntry_NoSyntheticId(part, tc_index) ==
    LET fc == part["functionCall"]
    IN  [id |-> Get(fc, "id", ""), type |-> "function",
         function |-> [name |-> Get(fc, "name", ""),
                       arguments |-> Str(Dumps(Get(fc, "args", Dict(<<>>))))]]

\* tc_entry of a function-call part, tc_index calls having been read
ToolCallEntry(part, tc_index) ==
    LET fc == part["functionCall"]
        tc_entry == [id |-> Get(fc, "id", CallId(tc_index)),
                     type |-> "function",
                     function |->
                        [name |-> Get(fc, "name", ""),
                         arguments |-> Str(Dumps(Get(fc, "args", Dict(<<>>))))]]
    IN  IF Get(part, "thoughtSignature", "") # ""
        THEN Put(tc_entry, "_thought_signature", part["thoughtSignature"])
        ELSE tc_entry

\* the loop over the parts without the "if part.get("thought")" skip
RECURSIVE ReadParts_KeepThought(_, _, _)
ReadParts_KeepThought(parts, i, acc) ==
    IF i > Len(parts) THEN acc
    ELSE LET part == parts[i]
         IN  IF "text" \in DOMAIN part
             THEN ReadParts_KeepThought(parts, i + 1,
                     [acc EXCEPT !.text_parts = Append(@, part["text"])])
             ELSE IF "functionCall" \in DOMAIN part
             THEN ReadParts_KeepThought(parts, i + 1,
                     [acc EXCEPT !.tool_calls =
                         Append(@, ToolCallEntry(part, Len(acc.tool_calls)))])
             ELSE ReadParts_KeepThought(parts, i + 1, acc)

\* the loop over the parts of the first candidate
RECURSIVE ReadParts(_, _, _)
ReadParts(parts, i, acc) ==
    IF i > Len(parts) THEN acc
    ELSE LET part == parts[i]
         IN  IF Get(part, "thought", FALSE)
             THEN ReadParts(parts, i + 1, acc)
             ELSE IF "text" \in DOMAIN part
             THEN ReadParts(parts, i + 1,
                     [acc EXCEPT !.text_parts = Append(@, part["text"])])
             ELSE IF "functionCall" \in DOMAIN part
             THEN ReadParts(parts, i + 1,
                     [acc EXCEPT !.tool_calls =
                         Append(@, ToolCallEntry(part, Len(acc.tool_calls)))])
             ELSE ReadParts(parts, i + 1, acc)

\* _google_to_openai_message(response)
_google_to_openai_message(response) ==
    LET candidates == Get(response, "candidates", <<>>)
    IN  IF candidates = <<>>
        THEN [role |-> "assistant", content |-> NoneV]
        ELSE LET parts == Get(Get(candidates[1], "content", EmptyDict),
                              "parts", <<>>)
                 r == ReadParts(parts, 1, [text_parts |-> <<>>,
                                          tool_calls |-> <<>>])
                 msg == [role |-> "assistant",
                         content |-> IF r.text_parts # <<>>
                                     THEN Str(Join(r.text_parts, <<Word("\n")>>))
                                     ELSE NoneV]
             IN  IF r.tool_calls # <<>>
                 THEN Put(msg, "tool_calls", r.tool_calls)
                 ELSE msg

\* _extract_usage(response)
_extract_usage(response) ==
    LET meta == Get(response, "usageMetadata", EmptyDict)
        prompt_tokens == Get(meta, "promptTokenCount", 0)
        completion_tokens == Get(meta, "candidatesTokenCount", 0)
    IN  [prompt_tokens |-> prompt_tokens,
         completion_tokens |-> completion_tokens,
         total_tokens |-> prompt_tokens + completion_tokens,
         cached_tokens |-> Get(meta, "cachedContentTokenCount", 0),
         cost |-> 0]

\* chat without the unwrapping of the outer envelope
Unwrap_Never(data) == data

\* chat: if "response" in data and "candidates" in data["response"]
Unwrap(data) ==
    IF "response" \in DOMAIN data /\ "candidates" \in DOMAIN data["response"]
    THEN data["response"]
    ELSE data

\* ------------------------------------------------------ the token endpoint

\* Tokens are numbered in the order the provider issues them; 0 is the empty
\* string (a missing token).
NoToken == 0

\* The expires_in field of a token response: missing, or a number of seconds
\* below, at and above the safety margin.
TTLs == {EmptyDict}
        \cup {[expires_in |-> n] :
                 n \in {SAFETY_MARGIN \div 2, SAFETY_MARGIN, 2 * SAFETY_MARGIN}}

\* Answers of TOKEN_ENDPOINT to a refresh_token grant: a success (with or
\* without a rotated refresh_token), a non-2xx status, or no answer in time.
TokenResponses ==
    [kind : {"ok"}, rotate : BOOLEAN, ttl : TTLs]
    \cup [kind : {"reject", "timeout"}, rotate : {FALSE}, ttl : {EmptyDict}]

\* The answers the model lets the token endpoint give during chat: the
\* default lifetime or one that the safety margin uses up, no rotation.
ChatTokenResponses ==
    {r \in TokenResponses :
        /\ ~r.rotate
        /\ r.ttl \in {EmptyDict, [expires_in |-> SAFETY_MARGIN]}}

\* ------------------------------------------------------- token lifecycle

\* int(token_data.get("expires_in", 3600))
ExpiresIn(r) == Get(r.ttl, "expires_in", DEFAULT_EXPIRES_IN)

\* the refresh that stores the new access_token and leaves expires_at and
\* refresh_token as they were
RefreshWith_TokenOnly(s, t, r, n) ==
    CASE r.kind = "reject" ->
           [kind |-> "HTTPError", token |-> NoToken, stored |-> s, net |-> 1,
            issued |-> n, ttl |-> 0]
      [] r.kind = "timeout" ->
           [kind |-> "Timeout", token |-> NoToken, stored |-> s, net |-> 1,
            issued |-> n, ttl |-> 0]
      [] OTHER ->
           [kind |-> "ok", token |-> n + 1,
            stored |-> Put(s, "access_token", n + 1), net |-> 1,
            issued |-> IF r.rotate THEN n + 2 ELSE n + 1,
            ttl |-> ExpiresIn(r)]

\* the refresh that stores the new access_token before it looks at the
\* status of the answer
RefreshWith_StoreFirst(s, t, r, n) ==
    CASE r.kind = "reject" ->
           [kind |-> "HTTPError", token |-> NoToken,
            stored |-> Put(s, "access_token", NoToken), net |-> 1,
            issued |-> n, ttl |-> 0]
      [] OTHER -> RefreshWith_TokenOnly(s, t, r, n)

\* the refresh that saves a record made of the tokens alone
RefreshWith_TokensAlone(s, t, r, n) ==
    CASE r.kind = "reject" ->
           [kind |-> "HTTPError", token |-> NoToken, stored |-> s, net |-> 1,
            issued |-> n, ttl |-> 0]
      [] r.kind = "timeout" ->
           [kind |-> "Timeout", token |-> NoToken, stored |-> s, net |-> 1,
            issued |-> n, ttl |-> 0]
      [] OTHER ->
           [kind |-> "ok", token |-> n + 1,
            stored |-> [access_token |-> n + 1,
                        expires_at |-> t + ExpiresIn(r) - SAFETY_MARGIN,
                        refresh_token |-> IF r.rotate THEN n + 2
                                          ELSE Get(s, "refresh_token", NoToken)],
            net |-> 1,
            issued |-> IF r.rotate THEN n + 2 ELSE n + 1,
            ttl |-> ExpiresIn(r)]

\* The body of refresh_access_token after rt was found: the POST and, on
\* success, the update of the loaded record and its save. n numbers the
\* tokens issued so far.
RefreshWith(s, t, r, n) ==
    CASE r.kind = "reject" ->
           [kind |-> "HTTPError", token |-> NoToken, stored |-> s, net |-> 1,
            issued |-> n, ttl |-> 0]
      [] r.kind = "timeout" ->
           [kind |-> "Timeout", token |-> NoToken, stored |-> s, net |-> 1,
            issued |-> n, ttl |-> 0]
      [] OTHER ->
           LET at == n + 1
               s1 == Put(Put(s, "access_token", at),
                         "expires_at", t + ExpiresIn(r) - SAFETY_MARGIN)
               s2 == IF r.rotate THEN Put(s1, "refresh_token", n + 2) ELSE s1
           IN  [kind |-> "ok", token |-> at, stored |-> s2, net |-> 1,
                issued |-> IF r.rotate THEN n + 2 ELSE n + 1,
                ttl |-> ExpiresIn(r)]

\* refresh_access_token without the "if not rt" check
refresh_access_token_NoCheck(s, arg, t, r, n) == RefreshWith(s, t, r, n)

\* refresh_access_token(refresh_token): arg is NoToken when it is called
\* without an argument.
refresh_access_token(s, arg, t, r, n) ==
    LET rt == IF arg # NoToken THEN arg ELSE Get(s, "refresh_token", NoToken)
    IN  IF rt = NoToken
        THEN [kind |-> "NotLoggedIn", token |-> NoToken, stored |-> s,
              net |-> 0, issued |-> n, ttl |-> 0]
        ELSE RefreshWith(s, t, r, n)

\* get_access_token that refreshes whether or not the cached token is valid
get_access_token_NoCache(s, t, r, n) ==
    IF Get(s, "refresh_token", NoToken) = NoToken
    THEN [kind |-> "NotLoggedIn", token |-> NoToken, stored |-> s, net |-> 0,
          issued |-> n, ttl |-> 0]
    ELSE refresh_access_token(s, s["refresh_token"], t, r, n)

\* get_access_token()
get_access_token(s, t, r, n) ==
    IF Get(s, "refresh_token", NoToken) = NoToken
    THEN [kind |-> "NotLoggedIn", token |-> NoToken, stored |-> s, net |-> 0,
          issued |-> n, ttl |-> 0]
    ELSE IF Get(s, "access_token", NoToken) # NoToken
            /\ t < Get(s, "expires_at", 0)
         THEN [kind |-> "ok", token |-> s["access_token"], stored |-> s,
               net |-> 0, issued |-> n, ttl |-> 0]
         ELSE refresh_access_token(s, s["refresh_token"], t, r, n)

\* One entry of calls: what a call found, what it returned or raised, the
\* number of requests it sent to the token endpoint (net) and the lifetime
\* the endpoint answered (ttl).
CallRecord(op, arg, s, t, g) ==
    [op |-> op, arg |-> arg, before |-> s, at |-> t, kind |-> g.kind,
     token |-> g.token, net |-> g.net, ttl |-> g.ttl]

\* calls keeps the last two calls, the latest last.
Remember(c) == IF Len(calls) < 2 THEN Append(calls, c) ELSE <<calls[2], c>>

\* ------------------------------------------------- the OAuth state codec
\* Texts are sequences of character codes; the JSON text of a state is
\* ASCII (json.dumps escapes the rest), so that its UTF-8 bytes are its
\* character codes.

\* the '=' of base64 padding
PAD == 61

\* "verifier" and "projectId"
KEY_VERIFIER == <<118, 101, 114, 105, 102, 105, 101, 114>>
KEY_PROJECT == <<112, 114, 111, 106, 101, 99, 116, 73, 100>>

\* t[i], or -1 past the end of t
At(t, i) == IF i >= 1 /\ i <= Len(t) THEN t[i] ELSE -1

\* the lowercase hexadecimal digit of d
HexDigit(d) == IF d < 10 THEN 48 + d ELSE 87 + d

\* the value of the hexadecimal digit c, -1 when it is none
HexVal(c) ==
    CASE c >= 48 /\ c <= 57 -> c - 48
      [] c >= 97 /\ c <= 102 -> c - 87
      [] c >= 65 /\ c <= 70 -> c - 55
      [] OTHER -> 0 - 1

\* json.dumps of one character of a string (ensure_ascii)
EscapeChar(c) ==
    CASE c = 34 -> <<92, 34>>
      [] c = 92 -> <<92, 92>>
      [] c > 127 \/ c < 32 ->
           <<92, 117, HexDigit(c \div 4096), HexDigit((c \div 256) % 16),
             HexDigit((c \div 16) % 16), HexDigit(c % 16)>>
      [] OTHER -> <<c>>

\* json.dumps of the string str
JsonString(str) ==
    <<34>> \o Join([i \in DOMAIN str |-> EscapeChar(str[i])], <<>>) \o <<34>>

\* json.dumps({"verifier": verifier, "projectId": project_id})
StateJson(verifier, project_id) ==
    <<123>> \o JsonString(KEY_VERIFIER) \o <<58, 32>> \o JsonString(verifier)
    \o <<44, 32>> \o JsonString(KEY_PROJECT) \o <<58, 32>>
    \o JsonString(project_id) \o <<125>>

\* the character of sextet n in the base64 alphabet whose last two
\* characters are c62 and c63
B64Char(n, c62, c63) ==
    CASE n < 26 -> 65 + n
      [] n < 52 -> 97 + (n - 26)
      [] n < 62 -> 48 + (n - 52)
      [] n = 62 -> c62
      [] OTHER -> c63

\* the sextet of character c of the standard alphabet, -1 for another one
B64Val(c) ==
    CASE c >= 65 /\ c <= 90 -> c - 65
      [] c >= 97 /\ c <= 122 -> c - 71
      [] c >= 48 /\ c <= 57 -> c + 4
      [] c = 43 -> 62
      [] c = 47 -> 63
      [] OTHER -> 0 - 1

\* base64.urlsafe_b64encode(bytes)
RECURSIVE urlsafe_b64encode(_)
urlsafe_b64encode(bytes) ==
    LET ch(n) == B64Char(n, 45, 95)
        b1 == bytes[1]
        b2 == At(bytes, 2)
        b3 == At(bytes, 3)
    IN  CASE Len(bytes) = 0 -> <<>>
          [] Len(bytes) = 1 ->
               <<ch(b1 \div 4), ch((b1 % 4) * 16), PAD, PAD>>
          [] Len(bytes) = 2 ->
               <<ch(b1 \div 4), ch((b1 % 4) * 16 + b2 \div 16),
                 ch((b2 % 16) * 4), PAD>>
          [] OTHER ->
               <<ch(b1 \div 4), ch((b1 % 4) * 16 + b2 \div 16),
                 ch((b2 % 16) * 4 + b3 \div 64), ch(b3 % 64)>>
               \o urlsafe_b64encode(SubSeq(bytes, 4, Len(bytes)))

\* the bytes of the groups of four characters of chars, which are of the
\* standard alphabet or padding; ok is FALSE for incorrect padding
RECURSIVE DecodeGroups(_, _)
DecodeGroups(chars, acc) ==
    IF chars = <<>> THEN [ok |-> TRUE, bytes |-> acc]
    ELSE IF Len(chars) < 4 \/ chars[1] = PAD \/ chars[2] = PAD
    THEN [ok |-> FALSE, bytes |-> <<>>]
    ELSE LET s1 == B64Val(chars[1])
             s2 == B64Val(chars[2])
             s3 == B64Val(chars[3])
             s4 == B64Val(chars[4])
         IN  IF chars[3] = PAD
             THEN IF chars[4] = PAD
                  THEN [ok |-> TRUE,
                        bytes |-> Append(acc, s1 * 4 + s2 \div 16)]
                  ELSE [ok |-> FALSE, bytes |-> <<>>]
             ELSE IF chars[4] = PAD
             THEN [ok |-> TRUE,
                   bytes |-> acc \o <<s1 * 4 + s2 \div 16,
                                      (s2 % 16) * 16 + s3 \div 4>>]
             ELSE DecodeGroups(SubSeq(chars, 5, Len(chars)),
                               acc \o <<s1 * 4 + s2 \div 16,
                                        (s2 % 16) * 16 + s3 \div 4,
                                        (s3 % 4) * 64 + s4>>)

\* base64.b64decode(chars): characters outside the standard alphabet are
\* discarded
b64decode(chars) ==
    DecodeGroups(SelectSeq(chars, LAMBDA c : c = PAD \/ B64Val(c) >= 0), <<>>)

\* text.rstrip("=")
RECURSIVE RStripPad(_)
RStripPad(text) ==
    IF text # <<>> /\ text[Len(text)] = PAD
    THEN RStripPad(SubSeq(text, 1, Len(text) - 1))
    ELSE text

\* _encode_state(verifier, project_id)
_encode_state(verifier, project_id) ==
    RStripPad(urlsafe_b64encode(StateJson(verifier, project_id)))

\* the position of the first character of t at or after i that is no JSON
\* whitespace
RECURSIVE SkipWs(_, _)
SkipWs(t, i) ==
    IF At(t, i) \in {32, 9, 10, 13} THEN SkipWs(t, i + 1) ELSE i

\* json.loads: the string whose opening quote precedes position i, acc
\* holding the characters read so far
RECURSIVE ScanString(_, _, _)
ScanString(t, i, acc) ==
    LET c == At(t, i)
        e == At(t, i + 1)
        h == [k \in 1..4 |-> HexVal(At(t, i + 1 + k))]
    IN  CASE c = 34 -> [ok |-> TRUE, val |-> acc, next |-> i + 1]
          [] c < 32 -> [ok |-> FALSE, val |-> <<>>, next |-> 0]
          [] c = 92 /\ e \in {34, 92, 47} -> ScanString(t, i + 2, Append(acc, e))
          [] c = 92 /\ e = 117 /\ \A k \in 1..4 : h[k] >= 0 ->
               ScanString(t, i + 6,
                          Append(acc, h[1] * 4096 + h[2] * 256 + h[3] * 16 + h[4]))
          [] c = 92 /\ e = 110 -> ScanString(t, i + 2, Append(acc, 10))
          [] c = 92 /\ e = 116 -> ScanString(t, i + 2, Append(acc, 9))
          [] c = 92 /\ e = 114 -> ScanString(t, i + 2, Append(acc, 13))
          [] c = 92 -> [ok |-> FALSE, val |-> <<>>, next |-> 0]
          [] OTHER -> ScanString(t, i + 1, Append(acc, c))

\* json.loads: the members of an object of strings from position i, the
\* start of a key; items holds the <<key, value>> read so far
RECURSIVE ScanMembers(_, _, _)
ScanMembers(t, i, items) ==
    LET fail == [ok |-> FALSE, items |-> <<>>]
        key == ScanString(t, i + 1, <<>>)
        colon == SkipWs(t, key.next)
        open == SkipWs(t, colon + 1)
        val == ScanString(t, open + 1, <<>>)
        sep == SkipWs(t, val.next)
    IN  IF At(t, i) # 34 \/ ~key.ok \/ At(t, colon) # 58 \/ At(t, open) # 34
           \/ ~val.ok
        THEN fail
        ELSE IF At(t, sep) = 44
        THEN ScanMembers(t, SkipWs(t, sep + 1),
                         Append(items, <<key.val, val.val>>))
        ELSE IF At(t, sep) = 125 /\ SkipWs(t, sep + 1) = Len(t) + 1
        THEN [ok |-> TRUE, items |-> Append(items, <<key.val, val.val>>)]
        ELSE fail

\* json.loads(t) for the text of an object whose values are strings
LoadsObject(t) ==
    LET i == SkipWs(t, 1)
        j == SkipWs(t, i + 1)
    IN  IF At(t, i) # 123 THEN [ok |-> FALSE, items |-> <<>>]
        ELSE IF At(t, j) = 125
        THEN [ok |-> SkipWs(t, j + 1) = Len(t) + 1, items |-> <<>>]
        ELSE ScanMembers(t, j, <<>>)

\* data[key] of the items of a dict (the last item of that key), dflt
\* when there is none
ItemOf(items, key, dflt) ==
    LET hit == {i \in DOMAIN items : items[i][1] = key}
    IN  IF hit = {} THEN dflt
        ELSE items[CHOOSE i \in hit : \A j \in hit : j <= i][2]

\* what _decode_state gives when it raises
DecodeError == [ok |-> FALSE, verifier |-> <<>>, project_id |-> <<>>]

\* The steps of _decode_state after the padding: the replacement of the
\* URL-safe characters, b64decode, decode("utf-8"), json.loads and the two
\* lookups.
DecodePadded(padded) ==
    LET normalized == [i \in DOMAIN padded |->
                         CASE padded[i] = 45 -> 43
                           [] padded[i] = 95 -> 47
                           [] OTHER -> padded[i]]
        raw == b64decode(normalized)
        data == LoadsObject(raw.bytes)
    IN  IF ~raw.ok \/ (\E i \in DOMAIN raw.bytes : raw.bytes[i] > 127)
           \/ ~data.ok
           \/ ~(\E i \in DOMAIN data.items : data.items[i][1] = KEY_VERIFIER)
        THEN DecodeError
        ELSE [ok |-> TRUE,
              verifier |-> ItemOf(data.items, KEY_VERIFIER, <<>>),
              project_id |-> ItemOf(data.items, KEY_PROJECT, <<>>)]

\* _decode_state that does not restore the padding
_decode_state_NoPadding(state) == DecodePadded(state)

\* _decode_state(state)
_decode_state(state) ==
    DecodePadded(state \o [i \in 1..((4 - (Len(state) % 4)) % 4) |-> PAD])

\* -------------------------------------------- email and project lookups

DEFAULT_PROJECT_ID == "rising-fact-p41fc"

ENDPOINTS_LOAD == <<"cloudcode-pa", "daily-cloudcode-pa.sandbox",
                    "autopush-cloudcode-pa.sandbox">>

KEY_COMPANION == <<Word("cloudaicompanionProject")>>
KEY_ID == <<Word("id")>>
KEY_EMAIL == <<Word("email")>>

\* What one request of a lookup gives: an HTTP answer (resp.ok or not, whose
\* body resp.json() parses to data or rejects), or an exception of requests.
HttpAnswer(ok, parses, data) ==
    [kind |-> "http", ok |-> ok, parses |-> parses, data |-> data]

RequestFailed == [kind |-> "exception", ok |-> FALSE, parses |-> FALSE,
                  data |-> NoneV]

\* the iteration that returns pid without "if pid"
ProjectIteration_NoEmptyCheck(a) ==
    IF a.kind = "exception" \/ ~a.ok \/ ~a.parses \/ a.data.t # "dict"
    THEN [act |-> "continue", pid |-> NoneV]
    ELSE LET pid == DictGet(a.data, KEY_COMPANION, Str(<<>>))
         IN  [act |-> "return",
              pid |-> IF pid.t = "dict" THEN DictGet(pid, KEY_ID, Str(<<>>))
                      ELSE pid]

\* One iteration of the loop of _fetch_project_id for the answer a of its
\* endpoint: "return pid" or "continue". An exception of the request, of
\* resp.json() or of data.get (data is no dict) is caught by "except
\* Exception: continue".
ProjectIteration(a) ==
    IF a.kind = "exception" \/ ~a.ok \/ ~a.parses \/ a.data.t # "dict"
    THEN [act |-> "continue", pid |-> NoneV]
    ELSE LET pid == DictGet(a.data, KEY_COMPANION, Str(<<>>))
             id == IF pid.t = "dict" THEN DictGet(pid, KEY_ID, Str(<<>>))
                   ELSE pid
         IN  IF Truthy(id) THEN [act |-> "return", pid |-> id]
             ELSE [act |-> "continue", pid |-> NoneV]

\* _fetch_project_id from endpoint number i on, answers[k] being what
\* endpoint k would answer: the identifier returned and the number of
\* endpoints queried
RECURSIVE FetchProjectFrom(_, _)
FetchProjectFrom(answers, i) ==
    IF i > Len(ENDPOINTS_LOAD)
    THEN [pid |-> Str(<<Word(DEFAULT_PROJECT_ID)>>), queried |-> i - 1]
    ELSE IF ProjectIteration(answers[i]).act = "return"
    THEN [pid |-> ProjectIteration(answers[i]).pid, queried |-> i]
    ELSE FetchProjectFrom(answers, i + 1)

_fetch_project_id(answers) == FetchProjectFrom(answers, 1)

\* _fetch_email for the answer a of USERINFO_ENDPOINT: the email of the
\* body when resp.ok, "" otherwise and after any exception
_fetch_email(a) ==
    IF a.kind = "exception" \/ ~a.ok \/ ~a.parses \/ a.data.t # "dict"
    THEN Str(<<>>)
    ELSE DictGet(a.data, KEY_EMAIL, Str(<<>>))

\* ------------------------------------------------------------ exchange_code

\* Answers of TOKEN_ENDPOINT to an authorization_code grant: a success, in
\* which refresh_token and access_token may each be absent, a non-2xx
\* status, or no answer in time.
ExchangeResponses ==
    [kind : {"ok"}, has_rt : BOOLEAN, has_at : BOOLEAN, ttl : TTLs]
    \cup [kind : {"reject", "timeout"}, has_rt : {FALSE}, has_at : {FALSE},
          ttl : {EmptyDict}]

\* What _fetch_email and _fetch_project_id return: the account's values, or
\* "" and the default project when the lookups fail.
LookupOutcomes ==
    {[email |-> "user@example.com", project_id |-> "project-1"],
     [email |-> "", project_id |-> DEFAULT_PROJECT_ID]}

\* exchange_code that saves whatever the response holds
exchange_code_NoCheck(s, t, r, n, lk) ==
    CASE r.kind = "reject" ->
           [kind |-> "HTTPError", token |-> NoToken, stored |-> s, net |-> 1,
            issued |-> n, ttl |-> 0, lookups |-> 0, returned |-> EmptyDict]
      [] r.kind = "timeout" ->
           [kind |-> "Timeout", token |-> NoToken, stored |-> s, net |-> 1,
            issued |-> n, ttl |-> 0, lookups |-> 0, returned |-> EmptyDict]
      [] OTHER ->
           LET result == [refresh_token |-> IF r.has_rt THEN n + 1 ELSE NoToken,
                          access_token |-> IF r.has_at THEN n + 2 ELSE NoToken,
                          expires_at |-> t + ExpiresIn(r) - SAFETY_MARGIN,
                          email |-> lk.email,
                          project_id |-> lk.project_id]
           IN  [kind |-> "ok", token |-> result["access_token"],
                stored |-> result, net |-> 1, issued |-> n + 2,
                ttl |-> ExpiresIn(r), lookups |-> 2, returned |-> result]

\* exchange_code that looks up email and project before it checks the tokens
exchange_code_LookupFirst(s, t, r, n, lk) ==
    LET g == exchange_code_NoCheck(s, t, r, n, lk)
    IN  IF r.kind = "ok" /\ (~r.has_rt \/ ~r.has_at)
        THEN [g EXCEPT !.kind = "ValueError", !.token = NoToken,
                       !.stored = s, !.returned = EmptyDict]
        ELSE g

\* exchange_code that keeps the lifetime whole (no safety margin)
exchange_code_NoMargin(s, t, r, n, lk) ==
    LET g == exchange_code_LookupFirst(s, t, r, n, lk)
    IN  IF g.kind # "ok" THEN [g EXCEPT !.lookups = 0]
        ELSE LET result == [g.returned EXCEPT !["expires_at"] = t + ExpiresIn(r)]
             IN  [g EXCEPT !.stored = result, !.returned = result]

\* exchange_code(code, verifier) on the stored record s at time t, with the
\* answer r of the token endpoint and the outcomes lk of the two lookups.
\* n numbers the tokens issued so far; lookups counts the lookups made.
exchange_code(s, t, r, n, lk) ==
    CASE r.kind = "reject" ->
           [kind |-> "HTTPError", token |-> NoToken, stored |-> s, net |-> 1,
            issued |-> n, ttl |-> 0, lookups |-> 0, returned |-> EmptyDict]
      [] r.kind = "timeout" ->
           [kind |-> "Timeout", token |-> NoToken, stored |-> s, net |-> 1,
            issued |-> n, ttl |-> 0, lookups |-> 0, returned |-> EmptyDict]
      [] ~r.has_rt \/ ~r.has_at ->
           [kind |-> "ValueError", token |-> NoToken, stored |-> s, net |-> 1,
            issued |-> n + 2, ttl |-> 0, lookups |-> 0,
            returned |-> EmptyDict]
      [] OTHER ->
           LET result == [refresh_token |-> n + 1,
                          access_token |-> n + 2,
                          expires_at |-> t + ExpiresIn(r) - SAFETY_MARGIN,
                          email |-> lk.email,
                          project_id |-> lk.project_id]
           IN  [kind |-> "ok", token |-> n + 2, stored |-> result, net |-> 1,
                issued |-> n + 2, ttl |-> ExpiresIn(r), lookups |-> 2,
                returned |-> result]

\* the text of a str value that holds at most one word
PlainText(x) == IF x.v = <<>> THEN "" ELSE x.v[1].x

\* email = _fetch_email(access_token); project_id = _fetch_project_id(
\* access_token), for the answer e of USERINFO_ENDPOINT and the answers ps
\* of the endpoints of ENDPOINTS_LOAD
Lookups(e, ps) ==
    [email |-> PlainText(_fetch_email(e)),
     project_id |-> PlainText(_fetch_project_id(ps).pid)]

\* exchange_code in which a lookup that fails is fatal: the exception of
\* the request or of the status leaves exchange_code before the save
ExchangeWithLookups_Fatal(s, t, r, n, e, ps) ==
    LET g == exchange_code(s, t, r, n, Lookups(e, ps))
    IN  IF g.kind = "ok"
           /\ (\/ e.kind = "exception" \/ ~e.ok
               \/ \E i \in DOMAIN ps : ps[i].kind = "exception" \/ ~ps[i].ok)
        THEN [g EXCEPT !.kind = "HTTPError", !.token = NoToken, !.stored = s,
                       !.returned = EmptyDict]
        ELSE g

\* exchange_code with the two lookups made of the answers they receive
ExchangeWithLookups(s, t, r, n, e, ps) ==
    exchange_code(s, t, r, n, Lookups(e, ps))

\* ------------------------------------------------- the credential file

\* the callers that share the credential file
Procs == {"A", "B"}

\* the keys of the credential record, in the order exchange_code writes them
FIELDS == <<"refresh_token", "access_token", "expires_at", "email",
            "project_id">>

\* The credential record as the JSON value that json.dumps writes: tokens
\* and instants are numbers, email and project_id are strings.
ToJson(d) ==
    LET ks == SelectSeq(FIELDS, LAMBDA k : k \in DOMAIN d)
    IN  Dict([i \in DOMAIN ks |->
                << <<Word(ks[i])>>,
                   IF ks[i] \in {"email", "project_id"}
                   THEN Str(<<Word(d[ks[i]])>>)
                   ELSE Num(d[ks[i]]) >>])

\* the dict that json.loads gives for the JSON object x
FromJson(x) ==
    [k \in {x.v[i][1][1].x : i \in DOMAIN x.v} |->
        LET val == DictGet(x, <<Word(k)>>, NoneV)
        IN  IF val.t = "str" THEN val.v[1].x ELSE val.v]

\* _load_stored() on the text f of the file: {} when the text is no JSON (an
\* empty or a cut-off file), as when there is no file.
_load_stored(f) ==
    LET r == Loads(f)
    IN  IF r.ok /\ r.val.t = "dict" THEN FromJson(r.val) ELSE EmptyDict

\* what a byte of a hole reads as (a write beyond the end of the file)
Hole == Punct("NUL")

\* the file f after a write of chunk at offset pos
WriteAt(f, pos, chunk) ==
    LET n == IF Len(f) > pos + Len(chunk) THEN Len(f) ELSE pos + Len(chunk)
    IN  [i \in 1..n |->
            IF i > pos /\ i <= pos + Len(chunk) THEN chunk[i - pos]
            ELSE IF i <= Len(f) THEN f[i]
            ELSE Hole]

\* no _load_stored yet
NoLoad == [result |-> EmptyDict, saves |-> {}]

\* ------------------------------------------ answers of the provider

TextHello == <<Word("hello")>>

\* {"city": "Moscow"}
ArgsCity == Dict(<< <<(<<Word("city")>>), Str(<<Word("Moscow")>>)>> >>)

\* A provider response with these parts in its first candidate.
Response(parts) == [candidates |-> <<[content |-> [parts |-> parts]]>>]

\* {"candidates": [{"content": {"parts": [{"text": "hello"}]}}]}
TextReply == Response(<<[text |-> TextHello]>>)

\* A signed call inside the outer envelope {"response": ..., "traceId": ...}
WrappedReply ==
    [response |-> Response(<<[functionCall |->
                                [name |-> "get_time", args |-> Dict(<<>>),
                                 id |-> "c2"],
                              thoughtSignature |-> "sigC"]>>),
     traceId |-> "t1"]

\* Answers of the provider (resp.json()): text only; a reasoning part, prose
\* and a signed call without id; an unsigned call with an id; two parallel
\* calls of which the first is signed; two parallel calls of which the
\* second is signed; a signed call inside the outer envelope; no candidate.
SampleResponses ==
    { TextReply,
      Response(<<[thought |-> TRUE, text |-> <<Word("hmm")>>],
                 [text |-> <<Word("checking")>>],
                 [functionCall |-> [name |-> "get_time", args |-> Dict(<<>>)],
                  thoughtSignature |-> "sigA"]>>),
      Response(<<[functionCall |-> [name |-> "get_weather", args |-> ArgsCity,
                                    id |-> "c1"]]>>),
      Response(<<[functionCall |-> [name |-> "get_time", args |-> Dict(<<>>)],
                  thoughtSignature |-> "sigB"],
                 [functionCall |-> [name |-> "get_weather", args |-> ArgsCity]]>>),
      Response(<<[functionCall |-> [name |-> "get_weather", args |-> ArgsCity]],
                 [functionCall |-> [name |-> "get_time", args |-> Dict(<<>>)],
                  thoughtSignature |-> "sigD"]>>),
      WrappedReply,
      [usageMetadata |-> [promptTokenCount |-> 3]],
      [candidates |-> <<>>] }

\* ------------------------------------------------ the generation endpoints

\* Response bodies (resp.text) of two lengths, so that an excerpt differs
\* from the body.
Bodies == {[text |-> "bodyA", len |-> 120], [text |-> "bodyB", len |-> 300]}

NoBody == [text |-> "", len |-> 0]

\* resp.text[:k]
Excerpt(b, k) == [text |-> b.text, len |-> IF b.len < k THEN b.len ELSE k]

\* {"usageMetadata": {"promptTokenCount": 3}}: no "candidates" member
NoCandidates == [usageMetadata |-> [promptTokenCount |-> 3]]

\* {"response": {"candidates": []}, "traceId": "t2"}
EmptyCandidates == [response |-> [candidates |-> <<>>], traceId |-> "t2"]

\* Payloads of a success answer (resp.json()).
Payloads == {TextReply, WrappedReply, NoCandidates, EmptyCandidates}

\* What one requests.post to a generation endpoint gives: an HTTP answer,
\* requests.exceptions.Timeout, or another RequestException.
GenResponses ==
    [kind : {"http"}, status : {200}, body : {NoBody}, payload : Payloads]
    \cup [kind : {"http"}, status : {401, 429, 400, 500}, body : {NoBody},
          payload : {EmptyDict}]
    \cup [kind : {"http"}, status : {403, 404}, body : Bodies,
          payload : {EmptyDict}]
    \cup [kind : {"timeout", "exception"}, status : {0}, body : {NoBody},
          payload : {EmptyDict}]

\* last_error = None
NoError == [fmt |-> "None", status |-> 0, endpoint |-> "", text |-> NoBody]

\* chat has given its caller nothing (yet)
NoOutcome == [kind |-> "none"]

\* raise_for_status that raises for client errors only
RaisesForStatus_4xxOnly(status) == status >= 400 /\ status < 500

\* resp.raise_for_status() raises requests.exceptions.HTTPError
RaisesForStatus(status) == status >= 400 /\ status < 600

\* data = resp.json(), unwrapped; msg = _google_to_openai_message(data);
\* usage = _extract_usage(data)
ParseBody(data) ==
    [msg |-> _google_to_openai_message(Unwrap(data)),
     usage |-> _extract_usage(Unwrap(data))]

\* The statements of chat's loop body that follow the 401 retry, for the
\* answer resp of endpoint number ep: what the iteration ends with
\* ("continue" or "return"), and the last_error or result it leaves.
Dispatch(resp, ep) ==
    CASE resp.kind = "timeout" ->
           [act |-> "continue",
            err |-> [fmt |-> "Timeout on", status |-> 0,
                     endpoint |-> ENDPOINTS[ep], text |-> NoBody]]
      [] resp.kind = "exception" ->
           [act |-> "continue",
            err |-> [fmt |-> "Error on", status |-> 0,
                     endpoint |-> ENDPOINTS[ep], text |-> NoBody]]
      [] resp.status = 429 ->
           [act |-> "continue",
            err |-> [fmt |-> "from", status |-> 429,
                     endpoint |-> ENDPOINTS[ep], text |-> NoBody]]
      [] resp.status = 403 ->
           [act |-> "continue",
            err |-> [fmt |-> "from", status |-> 403,
                     endpoint |-> ENDPOINTS[ep],
                     text |-> Excerpt(resp.body, ERR_EXCERPT)]]
      [] resp.status \in {400, 404} ->
           [act |-> "continue",
            err |-> [fmt |-> "from", status |-> resp.status,
                     endpoint |-> ENDPOINTS[ep],
                     text |-> Excerpt(resp.body, ERR_EXCERPT)]]
      [] RaisesForStatus(resp.status) ->
           \* HTTPError is a RequestException: the last except clause has it
           [act |-> "continue",
            err |-> [fmt |-> "Error on", status |-> resp.status,
                     endpoint |-> ENDPOINTS[ep], text |-> NoBody]]
      [] OTHER ->
           [act |-> "return", res |-> ParseBody(resp.payload)]

\* ------------------------------------------------------------ Spec: actions

\* "break" in place of "continue": the loop ends at the first failure
Continue_Break(err) ==
    /\ last_error' = err
    /\ idx' = idx
    /\ pc' = "raised"
    /\ outcome' = [kind |-> "AllFailed", last |-> err]

\* the error raised after the loop cites the failure recorded before the
\* last one
Continue_StaleError(err) ==
    /\ last_error' = err
    /\ IF idx < Len(ENDPOINTS)
       THEN /\ idx' = idx + 1
            /\ pc' = "post"
            /\ outcome' = outcome
       ELSE /\ idx' = idx
            /\ pc' = "raised"
            /\ outcome' = [kind |-> "AllFailed", last |-> last_error]

\* the failed endpoint is tried again instead of the next one
Continue_SameEndpoint(err) ==
    /\ last_error' = err
    /\ IF idx < Len(ENDPOINTS)
       THEN /\ idx' = idx
            /\ pc' = "post"
            /\ outcome' = outcome
       ELSE /\ idx' = idx
            /\ pc' = "raised"
            /\ outcome' = [kind |-> "AllFailed", last |-> err]

\* The end of one iteration of "for endpoint in ENDPOINTS" with last_error
\* err: the next endpoint, or the RuntimeError after the loop.
Continue(err) ==
    /\ last_error' = err
    /\ IF idx < Len(ENDPOINTS)
       THEN /\ idx' = idx + 1
            /\ pc' = "post"
            /\ outcome' = outcome
       ELSE /\ idx' = idx
            /\ pc' = "raised"
            /\ outcome' = [kind |-> "AllFailed", last |-> err]

\* _google_to_openai_message without its early return: candidates[0] of no
\* candidate raises IndexError, which no except clause of chat catches
Handle_NoEarlyReturn(resp) ==
    LET d == Dispatch(resp, idx)
    IN  IF d.act = "continue"
        THEN Continue(d.err)
        ELSE IF Get(Unwrap(resp.payload), "candidates", <<>>) = <<>>
        THEN /\ pc' = "raised"
             /\ outcome' = [kind |-> "IndexError", last |-> last_error]
             /\ UNCHANGED <<idx, last_error>>
        ELSE /\ pc' = "returned"
             /\ outcome' = [kind |-> "return", ep |-> idx, res |-> d.res]
             /\ UNCHANGED <<idx, last_error>>

\* The rest of the try block for the answer resp.
Handle(resp) ==
    LET d == Dispatch(resp, idx)
    IN  IF d.act = "continue"
        THEN Continue(d.err)
        ELSE /\ pc' = "returned"
             /\ outcome' = [kind |-> "return", ep |-> idx, res |-> d.res]
             /\ UNCHANGED <<idx, last_error>>

\* What the token endpoint answered to the request of a call (none when the
\* call sent no request), and whether the answer held a refresh_token.
Answered(g, r) ==
    [answer |-> IF g.net = 1 THEN r.kind ELSE "none",
     rotated |-> g.net = 1 /\ r.kind = "ok" /\ r.rotate]

\* A caller calls get_access_token().
GetAccessToken ==
    /\ UNCHANGED <<convVars, storeVars, fnVars>>
    /\ opsDone < MaxOps
    /\ \E r \in TokenResponses :
         LET g == get_access_token(stored, now, r, issued)
         IN  /\ stored' = g.stored
             /\ issued' = g.issued
             /\ calls' = Remember(CallRecord("get_access_token", NoToken,
                                             stored, now, g)
                                  @@ Answered(g, r))
    /\ opsDone' = opsDone + 1
    /\ UNCHANGED <<now, pc, idx, access_token, last_error, outcome, log>>

\* A caller calls refresh_access_token(arg).
RefreshAccessToken ==
    /\ UNCHANGED <<convVars, storeVars, fnVars>>
    /\ opsDone < MaxOps
    /\ \E r \in TokenResponses,
          arg \in {NoToken, Get(stored, "refresh_token", NoToken), 1} :
         LET g == refresh_access_token(stored, arg, now, r, issued)
         IN  /\ stored' = g.stored
             /\ issued' = g.issued
             /\ calls' = Remember(CallRecord("refresh_access_token", arg,
                                             stored, now, g)
                                  @@ Answered(g, r))
    /\ opsDone' = opsDone + 1
    /\ UNCHANGED <<now, pc, idx, access_token, last_error, outcome, log>>

\* chat up to the loop: access_token = get_access_token(), the body is built.
ChatBegin ==
    /\ UNCHANGED <<convVars, storeVars, fnVars>>
    /\ pc = "idle"
    /\ \E r \in ChatTokenResponses :
         LET g == get_access_token(stored, now, r, issued)
         IN  /\ stored' = g.stored
             /\ issued' = g.issued
             /\ calls' = Remember(CallRecord("get_access_token", NoToken,
                                             stored, now, g))
             /\ access_token' = g.token
             /\ IF g.kind = "ok"
                THEN pc' = "post" /\ outcome' = NoOutcome
                ELSE pc' = "raised" /\ outcome' = [kind |-> g.kind, last |-> NoError]
    /\ idx' = 1
    /\ last_error' = NoError
    /\ log' = <<>>
    /\ UNCHANGED <<now, opsDone>>

\* The first requests.post of an iteration and, unless it is answered 401,
\* the rest of the iteration.
ChatPost ==
    /\ UNCHANGED <<convVars, storeVars, fnVars>>
    /\ pc = "post"
    /\ \E resp \in GenResponses :
         /\ log' = Append(log, [ep |-> idx, token |-> access_token,
                                resp |-> resp, retry |-> FALSE])
         /\ IF resp.kind = "http" /\ resp.status = 401
            THEN pc' = "refresh401" /\ UNCHANGED <<idx, last_error, outcome>>
            ELSE Handle(resp)
    /\ UNCHANGED <<stored, now, issued, calls, opsDone, access_token>>

\* the refresh after a 401 made outside the try block: what it raises
\* reaches the caller
ChatRefresh401_Outside ==
    /\ UNCHANGED <<convVars, storeVars, fnVars>>
    /\ pc = "refresh401"
    /\ \E r \in ChatTokenResponses :
         LET g == get_access_token(stored, now, r, issued)
         IN  /\ stored' = g.stored
             /\ issued' = g.issued
             /\ calls' = Remember(CallRecord("get_access_token", NoToken,
                                             stored, now, g))
             /\ IF g.kind = "ok"
                THEN /\ access_token' = g.token
                     /\ pc' = "retry"
                     /\ UNCHANGED <<idx, last_error, outcome>>
                ELSE /\ pc' = "raised"
                     /\ outcome' = [kind |-> g.kind, last |-> NoError]
                     /\ UNCHANGED <<idx, last_error, access_token>>
    /\ UNCHANGED <<now, opsDone, log>>

\* After a 401: access_token = get_access_token(). An exception of the
\* refresh is raised inside the try block.
ChatRefresh401 ==
    /\ UNCHANGED <<convVars, storeVars, fnVars>>
    /\ pc = "refresh401"
    /\ \E r \in ChatTokenResponses :
         LET g == get_access_token(stored, now, r, issued)
         IN  /\ stored' = g.stored
             /\ issued' = g.issued
             /\ calls' = Remember(CallRecord("get_access_token", NoToken,
                                             stored, now, g))
             /\ CASE g.kind = "ok" ->
                       /\ access_token' = g.token
                       /\ pc' = "retry"
                       /\ UNCHANGED <<idx, last_error, outcome>>
                  [] g.kind = "HTTPError" ->
                       /\ Continue([fmt |-> "Error on", status |-> 0,
                                    endpoint |-> ENDPOINTS[idx], text |-> NoBody])
                       /\ UNCHANGED access_token
                  [] g.kind = "Timeout" ->
                       /\ Continue([fmt |-> "Timeout on", status |-> 0,
                                    endpoint |-> ENDPOINTS[idx], text |-> NoBody])
                       /\ UNCHANGED access_token
                  [] OTHER ->
                       \* RuntimeError: no except clause has it
                       /\ pc' = "raised"
                       /\ outcome' = [kind |-> g.kind, last |-> NoError]
                       /\ UNCHANGED <<idx, last_error, access_token>>
    /\ UNCHANGED <<now, opsDone, log>>

\* the retry that treats a second 401 as the first: refresh and post
\* again
ChatRetry_Again ==
    /\ UNCHANGED <<convVars, storeVars, fnVars>>
    /\ pc = "retry"
    /\ \E resp \in GenResponses :
         /\ log' = Append(log, [ep |-> idx, token |-> access_token,
                                resp |-> resp, retry |-> TRUE])
         /\ IF resp.kind = "http" /\ resp.status = 401
            THEN pc' = "refresh401" /\ UNCHANGED <<idx, last_error, outcome>>
            ELSE Handle(resp)
    /\ UNCHANGED <<stored, now, issued, calls, opsDone, access_token>>

\* The second requests.post to the same endpoint and the rest of the
\* iteration.
ChatRetry ==
    /\ UNCHANGED <<convVars, storeVars, fnVars>>
    /\ pc = "retry"
    /\ \E resp \in GenResponses :
         /\ log' = Append(log, [ep |-> idx, token |-> access_token,
                                resp |-> resp, retry |-> TRUE])
         /\ Handle(resp)
    /\ UNCHANGED <<stored, now, issued, calls, opsDone, access_token>>

\* Time passes. Only get_access_token reads the clock, so the model lets it
\* pass where the next statement is a call of get_access_token.
Tick ==
    /\ UNCHANGED <<convVars, storeVars, fnVars>>
    /\ pc \in {"idle", "refresh401"}
    /\ now < MaxTicks * SAFETY_MARGIN
    /\ now' = now + SAFETY_MARGIN
    /\ UNCHANGED <<stored, issued, calls, opsDone, pc, idx, access_token,
                   last_error, outcome, log>>

\* A record as exchange_code saved it at time 0 with the default expires_in
\* cut to two margins, so that it expires while the model runs.
LoggedIn ==
    [refresh_token |-> 1, access_token |-> 2, expires_at |-> SAFETY_MARGIN,
     email |-> "user@example.com", project_id |-> "project-1"]

\* no login() is running
NoLogin == [pc |-> "none"]

\* no conversation, no function applied
InitConvIdle ==
    /\ messages = <<>>
    /\ origin = <<>>
    /\ body = EmptyDict
    /\ sentLen = 0
    /\ fnIn = EmptyDict
    /\ fnOut = EmptyDict
    /\ login = NoLogin

\* no caller is in the credential file
InitStoreIdle ==
    /\ file = <<>>
    /\ ppc = [p \in Procs |-> "idle"]
    /\ rtArg = [p \in Procs |-> NoToken]
    /\ local = [p \in Procs |-> EmptyDict]
    /\ wtext = [p \in Procs |-> <<>>]
    /\ wpos = [p \in Procs |-> 0]
    /\ old = [p \in Procs |-> <<>>]
    /\ seen = [p \in Procs |-> NoLoad]
    /\ provider = [rt |-> NoToken, grants |-> {}]
    /\ started = {}

Init ==
    /\ InitConvIdle
    /\ InitStoreIdle
    /\ stored \in {EmptyDict, LoggedIn}
    /\ now = 0
    /\ issued = 2
    /\ calls = <<>>
    /\ opsDone = 0
    /\ pc = "idle"
    /\ idx = 1
    /\ access_token = NoToken
    /\ last_error = NoError
    /\ outcome = NoOutcome
    /\ log = <<>>

Next ==
    \/ GetAccessToken
    \/ RefreshAccessToken
    \/ Tick

Spec == Init /\ [][Next]_vars

NextChat ==
    \/ ChatBegin
    \/ ChatPost
    \/ ChatRefresh401
    \/ ChatRetry
    \/ Tick

\* get_project_id() on the record s
get_project_id(s) == Get(s, "project_id", DEFAULT_PROJECT_ID)

\* is_logged_in() on the record s
is_logged_in(s) == Get(s, "refresh_token", NoToken) # NoToken

\* A caller calls get_project_id() or is_logged_in(): it loads the record
\* and returns; fnOut keeps the call, what it returned and the record it
\* left.
ReadStored ==
    /\ opsDone < MaxOps
    /\ opsDone' = opsDone + 1
    /\ UNCHANGED <<stored, now, issued, calls, pc, idx, access_token,
                   last_error, outcome, log>>
    /\ UNCHANGED <<fnIn, login, convVars, storeVars>>
    /\ \/ fnOut' = [op |-> "get_project_id", before |-> stored,
                    result |-> get_project_id(stored), after |-> stored']
       \/ fnOut' = [op |-> "is_logged_in", before |-> stored,
                    result |-> is_logged_in(stored), after |-> stored']

NextFrame ==
    \/ GetAccessToken
    \/ RefreshAccessToken
    \/ ReadStored
    \/ Tick

SpecFrame == Init /\ [][NextFrame]_vars

SpecChat == Init /\ [][NextChat]_vars

\* chat runs on once it was called: every statement of it returns, the
\* posts by their timeout at the latest
SpecChatFair ==
    /\ Init
    /\ [][NextChat]_vars
    /\ WF_vars(ChatPost)
    /\ WF_vars(ChatRefresh401)
    /\ WF_vars(ChatRetry)

\* ---------------------------------------------------- SpecLogin: actions

\* A caller calls exchange_code(code, verifier); calls keeps, besides the
\* fields of the other calls, the number of lookups made and the record
\* returned.
ExchangeCode ==
    /\ opsDone < MaxOps
    /\ \E r \in ExchangeResponses, lk \in LookupOutcomes :
         LET g == exchange_code(stored, now, r, issued, lk)
         IN  /\ stored' = g.stored
             /\ issued' = g.issued
             /\ calls' = Remember(CallRecord("exchange_code", NoToken,
                                             stored, now, g)
                                  @@ [lookups |-> g.lookups,
                                      returned |-> g.returned,
                                      has_rt |-> r.has_rt,
                                      has_at |-> r.has_at,
                                      answer |-> r.kind])
    /\ opsDone' = opsDone + 1
    /\ UNCHANGED <<now, pc, idx, access_token, last_error, outcome, log>>
    /\ UNCHANGED <<convVars, storeVars, fnVars>>

NextLogin ==
    \/ ExchangeCode
    \/ Tick

SpecLogin == Init /\ [][NextLogin]_vars

\* ----------------------------------------------------- SpecStore: actions

\* the variables of Spec that the callers of SpecStore leave alone
storeFrame == <<stored, now, calls, pc, idx, access_token, last_error,
                outcome, log>>

\* The answers the model lets the token endpoint give the callers that
\* share the file: the default lifetime or twice the safety margin, any
\* outcome.
StoreTokenResponses ==
    {r \in TokenResponses :
        r.ttl \in {EmptyDict, [expires_in |-> 2 * SAFETY_MARGIN]}}

\* the grant that the record s holds
GrantOf(s) ==
    [access_token |-> Get(s, "access_token", NoToken),
     expires_at |-> Get(s, "expires_at", 0)]

\* the token endpoint after the answer that made g of a refresh: a rotated
\* refresh_token replaces the latest one, the grant is added
Issue(pr, g) ==
    IF g.kind # "ok" THEN pr
    ELSE [rt |-> IF g.issued = g.token + 1 THEN g.issued ELSE pr.rt,
          grants |-> pr.grants \cup {GrantOf(g.stored)}]

\* the _save_stored calls that have opened the file and not finished
\* writing it, each as <<text of the file before, text it writes>>
SavesInProgress == {<<old[q], wtext[q]>> : q \in {q \in Procs : ppc[q] = "write"}}

\* One _load_stored() by caller p; seen keeps the dict it returns and the
\* saves that were in progress.
Load(p) == seen' = [seen EXCEPT ![p] = [result |-> _load_stored(file),
                                        saves |-> SavesInProgress]]

\* get_project_id() / is_logged_in(): one _load_stored(), nothing else
StoreRead(p) ==
    /\ ppc[p] = "idle"
    /\ Load(p)
    /\ UNCHANGED <<file, ppc, rtArg, local, wtext, wpos, old, issued, opsDone>>
    /\ UNCHANGED <<provider, started, storeFrame, convVars, fnVars>>

\* get_access_token() up to its return, its raise, or its call of
\* refresh_access_token(stored["refresh_token"])
GetAccessTokenLoad(p) ==
    /\ ppc[p] = "idle"
    /\ opsDone < MaxOps
    /\ opsDone' = opsDone + 1
    /\ Load(p)
    /\ LET s == _load_stored(file)
       IN  IF Get(s, "refresh_token", NoToken) = NoToken
           THEN UNCHANGED <<ppc, rtArg>>
           ELSE IF Get(s, "access_token", NoToken) # NoToken
                   /\ now < Get(s, "expires_at", 0)
                THEN UNCHANGED <<ppc, rtArg>>
                ELSE /\ ppc' = [ppc EXCEPT ![p] = "refresh"]
                     /\ rtArg' = [rtArg EXCEPT ![p] = s["refresh_token"]]
    /\ started' = started \cup {"get_access_token"}
    /\ UNCHANGED <<file, local, wtext, wpos, old, issued, provider>>
    /\ UNCHANGED <<storeFrame, convVars, fnVars>>

\* a call of refresh_access_token() without an argument
RefreshBegin(p) ==
    /\ ppc[p] = "idle"
    /\ opsDone < MaxOps
    /\ opsDone' = opsDone + 1
    /\ ppc' = [ppc EXCEPT ![p] = "refresh"]
    /\ rtArg' = [rtArg EXCEPT ![p] = NoToken]
    /\ started' = started \cup {"refresh_access_token"}
    /\ UNCHANGED <<file, local, wtext, wpos, old, seen, issued, provider>>
    /\ UNCHANGED <<storeFrame, convVars, fnVars>>

\* refresh_access_token: stored = _load_stored() and the choice of rt
RefreshLoad(p) ==
    /\ ppc[p] = "refresh"
    /\ Load(p)
    /\ LET s == _load_stored(file)
       IN  /\ local' = [local EXCEPT ![p] = s]
           /\ IF rtArg[p] = NoToken /\ Get(s, "refresh_token", NoToken) = NoToken
              THEN ppc' = [ppc EXCEPT ![p] = "idle"]
              ELSE ppc' = [ppc EXCEPT ![p] = "post"]
    /\ UNCHANGED <<file, rtArg, wtext, wpos, old, issued, opsDone>>
    /\ UNCHANGED <<provider, started, storeFrame, convVars, fnVars>>

\* refresh_access_token: the POST to the token endpoint and the update of
\* the dict stored
RefreshPost(p) ==
    /\ ppc[p] = "post"
    /\ \E r \in StoreTokenResponses :
         LET g == RefreshWith(local[p], now, r, issued)
         IN  /\ issued' = g.issued
             /\ provider' = Issue(provider, g)
             /\ local' = [local EXCEPT ![p] = g.stored]
             /\ ppc' = [ppc EXCEPT ![p] = IF g.kind = "ok" THEN "save"
                                          ELSE "idle"]
    /\ UNCHANGED <<file, rtArg, wtext, wpos, old, seen, opsDone>>
    /\ UNCHANGED <<started, storeFrame, convVars, fnVars>>

\* exchange_code up to its _save_stored(result): the POST, the check of the
\* tokens and the lookups; result is built without a load of the file
ExchangePost(p) ==
    /\ ppc[p] = "idle"
    /\ opsDone < MaxOps
    /\ opsDone' = opsDone + 1
    /\ started' = started \cup {"exchange_code"}
    /\ \E r \in {x \in ExchangeResponses : x.ttl = EmptyDict},
          lk \in LookupOutcomes :
         LET g == exchange_code(local[p], now, r, issued, lk)
         IN  /\ issued' = g.issued
             /\ local' = [local EXCEPT ![p] = g.stored]
             /\ provider' = IF g.kind # "ok" THEN provider
                            ELSE [rt |-> g.stored["refresh_token"],
                                  grants |-> provider.grants
                                               \cup {GrantOf(g.stored)}]
             /\ ppc' = [ppc EXCEPT ![p] = IF g.kind = "ok" THEN "save"
                                          ELSE "idle"]
    /\ UNCHANGED <<file, rtArg, wtext, wpos, old, seen>>
    /\ UNCHANGED <<storeFrame, convVars, fnVars>>

\* _save_stored(stored): write_text opens the file for writing, which
\* truncates it
SaveOpen(p) ==
    /\ ppc[p] = "save"
    /\ old' = [old EXCEPT ![p] = file]
    /\ file' = <<>>
    /\ wtext' = [wtext EXCEPT ![p] = Dumps(ToJson(local[p]))]
    /\ wpos' = [wpos EXCEPT ![p] = 0]
    /\ ppc' = [ppc EXCEPT ![p] = "write"]
    /\ UNCHANGED <<rtArg, local, seen, issued, opsDone>>
    /\ UNCHANGED <<provider, started, storeFrame, convVars, fnVars>>

\* _save_stored(stored): write_text writes the text at the offset of its
\* open file, all that is left of it or the part up to its middle, and
\* returns when the text is written
SaveWrite(p) ==
    /\ ppc[p] = "write"
    /\ \E k \in {Len(wtext[p]) \div 2, Len(wtext[p])} :
         /\ k > wpos[p]
         /\ file' = WriteAt(file, wpos[p], SubSeq(wtext[p], wpos[p] + 1, k))
         /\ wpos' = [wpos EXCEPT ![p] = k]
         /\ ppc' = [ppc EXCEPT ![p] = IF k = Len(wtext[p]) THEN "idle"
                                      ELSE "write"]
    /\ UNCHANGED <<rtArg, local, wtext, old, seen, issued, opsDone>>
    /\ UNCHANGED <<provider, started, storeFrame, convVars, fnVars>>

\* The callers share the file of a logged-in user whose access token has
\* expired.
InitStore ==
    /\ InitConvIdle
    /\ file = Dumps(ToJson(LoggedIn))
    /\ ppc = [p \in Procs |-> "idle"]
    /\ rtArg = [p \in Procs |-> NoToken]
    /\ local = [p \in Procs |-> EmptyDict]
    /\ wtext = [p \in Procs |-> <<>>]
    /\ wpos = [p \in Procs |-> 0]
    /\ old = [p \in Procs |-> <<>>]
    /\ seen = [p \in Procs |-> NoLoad]
    /\ provider = [rt |-> LoggedIn["refresh_token"],
                   grants |-> {GrantOf(LoggedIn)}]
    /\ started = {}
    /\ stored = LoggedIn
    /\ now = SAFETY_MARGIN
    /\ issued = 2
    /\ calls = <<>>
    /\ opsDone = 0
    /\ pc = "idle"
    /\ idx = 1
    /\ access_token = NoToken
    /\ last_error = NoError
    /\ outcome = NoOutcome
    /\ log = <<>>

NextStore ==
    \E p \in Procs :
        \/ StoreRead(p)
        \/ GetAccessTokenLoad(p)
        \/ RefreshBegin(p)
        \/ RefreshLoad(p)
        \/ RefreshPost(p)
        \/ ExchangePost(p)
        \/ SaveOpen(p)
        \/ SaveWrite(p)

SpecStore == InitStore /\ [][NextStore]_vars

\* ---------------------------------------------------- SpecState: actions

\* the characters of verifiers and project hints: a, the characters ? and >
\* (whose bytes can give the last two characters of the base64 alphabet),
\* the base64 characters + _ =, the quote and e-acute
StateChars == {97, 63, 62, 43, 95, 61, 34, 233}

\* the strings of at most n characters
Strings(n) == UNION {[1..k -> StateChars] : k \in 0..n}

\* get_auth_url / login: state = _encode_state(verifier, project_id)
EncodeState ==
    /\ fnOut.stage = "start"
    /\ fnOut' = [stage |-> "encoded",
                 state |-> _encode_state(fnIn.verifier, fnIn.project_id)]
    /\ UNCHANGED <<fnIn, login, chatVars, convVars, storeVars>>

\* the browser or the user hands the state back with k of the '=' that
\* _encode_state stripped
PresentPadded ==
    /\ fnOut.stage = "encoded"
    /\ \E k \in 1..((4 - (Len(fnOut.state) % 4)) % 4) :
         fnOut' = [stage |-> "padded",
                   state |-> fnOut.state \o [i \in 1..k |-> PAD]]
    /\ UNCHANGED <<fnIn, login, chatVars, convVars, storeVars>>

\* login / login_manual: verifier, _ = _decode_state(state)
DecodeState ==
    /\ fnOut.stage \in {"encoded", "padded"}
    /\ fnOut' = [stage |-> "decoded", state |-> fnOut.state,
                 decoded |-> _decode_state(fnOut.state)]
    /\ UNCHANGED <<fnIn, login, chatVars, convVars, storeVars>>

InitState ==
    /\ InitStoreIdle
    /\ messages = <<>>
    /\ origin = <<>>
    /\ body = EmptyDict
    /\ sentLen = 0
    /\ stored = EmptyDict
    /\ now = 0
    /\ issued = 0
    /\ calls = <<>>
    /\ opsDone = 0
    /\ pc = "idle"
    /\ idx = 1
    /\ access_token = NoToken
    /\ last_error = NoError
    /\ outcome = NoOutcome
    /\ log = <<>>
    /\ fnIn \in [verifier : Strings(MaxVerifier), project_id : Strings(MaxHint)]
    /\ fnOut = [stage |-> "start"]
    /\ login = NoLogin

NextState ==
    \/ EncodeState
    \/ PresentPadded
    \/ DecodeState

SpecState == InitState /\ [][NextState]_vars

\* ------------------------------------------------- SpecCallback: actions

\* the verifiers that get_auth_url may generate
Verifiers == {<<97>>, <<63, 43>>}

\* What the one request that reaches the listener carries (do_GET): a code
\* or none, and the state of this login, the state of another verifier, or
\* none.
Callbacks(verifier) ==
    [code : {"None", "code-1"},
     state : {<<>>, _encode_state(verifier, <<>>), _encode_state(<<98>>, <<>>)}]

\* login() up to server.handle_request(): the URL is built with a fresh
\* verifier, code and state of the handler are reset, the server listens
LoginListen ==
    /\ login.pc = "start"
    /\ \E v \in Verifiers :
         login' = [pc |-> "listening", verifier |-> v, code |-> "None",
                   state |-> <<>>]
    /\ UNCHANGED <<fnIn, fnOut, chatVars, convVars, storeVars>>

\* time passes while login() is inside server.handle_request(), which has
\* no timeout
LoginWait ==
    /\ login.pc = "listening"
    /\ now < MaxTicks * SAFETY_MARGIN
    /\ now' = now + SAFETY_MARGIN
    /\ UNCHANGED <<stored, issued, calls, opsDone, pc, idx, access_token,
                   last_error, outcome, log>>
    /\ UNCHANGED <<fnIn, fnOut, login, convVars, storeVars>>

\* What login() makes of the state that came with the request: nothing when
\* there is none ("if state:"), else _decode_state(state); a state that
\* cannot be decoded makes login() raise, a decoded one gives the verifier.
StateOutcome(state, verifier) ==
    IF state = <<>>
    THEN [ok |-> TRUE, verifier |-> verifier]
    ELSE [ok |-> _decode_state(state).ok,
          verifier |-> IF _decode_state(state).ok
                       THEN _decode_state(state).verifier ELSE verifier]

\* a request reaches the listener: do_GET keeps its code and state, and
\* handle_request returns; what the state decodes to is fixed from here on
CallbackArrives ==
    /\ login.pc = "listening"
    /\ \E cb \in Callbacks(login.verifier) :
         login' = [pc |-> "handled", verifier |-> login.verifier,
                   code |-> cb.code, state |-> cb.state,
                   decoded |-> StateOutcome(cb.state, login.verifier)]
    /\ UNCHANGED <<fnIn, fnOut, chatVars, convVars, storeVars>>

\* login() after handle_request: no code was received, or the state that
\* came with it cannot be decoded
LoginRaise ==
    /\ login.pc = "handled"
    /\ login.code = "None" \/ ~login.decoded.ok
    /\ login' = [login EXCEPT !.pc = "raised"]
    /\ UNCHANGED <<fnIn, fnOut, chatVars, convVars, storeVars>>

\* the verifier that login() hands to exchange_code: the one of the state
\* when a state came with the code
VerifierOf(lg) == lg.decoded.verifier

\* the exchange made whether or not a code was received
LoginExchange_NoCodeCheck ==
    /\ login.pc = "handled"
    /\ login.decoded.ok
    /\ \E r \in ExchangeResponses, lk \in LookupOutcomes :
         /\ stored' = exchange_code(stored, now, r, issued, lk).stored
         /\ issued' = exchange_code(stored, now, r, issued, lk).issued
         /\ calls' = Append(calls,
                            CallRecord("exchange_code", NoToken, stored, now,
                                       exchange_code(stored, now, r, issued, lk)))
         /\ login' = [login EXCEPT
                        !.pc = IF exchange_code(stored, now, r, issued, lk).kind = "ok"
                               THEN "returned" ELSE "raised",
                        !.verifier = VerifierOf(login)]
    /\ UNCHANGED <<now, opsDone, pc, idx, access_token, last_error,
                   outcome, log>>
    /\ UNCHANGED <<fnIn, fnOut, convVars, storeVars>>

\* login() and login_manual() once code and state are known:
\* exchange_code(code, verifier), which calls records with the request it
\* sent to the token endpoint
LoginExchange ==
    /\ login.pc = "handled"
    /\ login.code # "None"
    /\ login.decoded.ok
    /\ \E r \in ExchangeResponses, lk \in LookupOutcomes :
         /\ stored' = exchange_code(stored, now, r, issued, lk).stored
         /\ issued' = exchange_code(stored, now, r, issued, lk).issued
         /\ calls' = Append(calls,
                            CallRecord("exchange_code", NoToken, stored, now,
                                       exchange_code(stored, now, r, issued, lk)))
         /\ login' = [login EXCEPT
                        !.pc = IF exchange_code(stored, now, r, issued, lk).kind = "ok"
                               THEN "returned" ELSE "raised",
                        !.verifier = VerifierOf(login)]
    /\ UNCHANGED <<now, opsDone, pc, idx, access_token, last_error,
                   outcome, log>>
    /\ UNCHANGED <<fnIn, fnOut, convVars, storeVars>>

\* login_manual() up to input(): the URL is built with a fresh verifier and
\* printed
ManualPrompt ==
    /\ login.pc = "start"
    /\ \E v \in Verifiers :
         login' = [pc |-> "prompted", verifier |-> v, code |-> "None",
                   state |-> <<>>]
    /\ UNCHANGED <<fnIn, fnOut, chatVars, convVars, storeVars>>

\* login_manual() from input() to the check of the code: the user pastes
\* nothing (RuntimeError("Empty URL")), or a URL whose query has a code or
\* none and a state or none
ManualPaste ==
    /\ login.pc = "prompted"
    /\ \/ login' = [login EXCEPT !.pc = "raised"]
       \/ \E cb \in Callbacks(login.verifier) :
            login' = [pc |-> "handled", verifier |-> login.verifier,
                      code |-> cb.code, state |-> cb.state,
                      decoded |-> StateOutcome(cb.state, login.verifier)]
    /\ UNCHANGED <<fnIn, fnOut, chatVars, convVars, storeVars>>

InitCallback ==
    /\ InitStoreIdle
    /\ messages = <<>>
    /\ origin = <<>>
    /\ body = EmptyDict
    /\ sentLen = 0
    /\ fnIn = EmptyDict
    /\ fnOut = EmptyDict
    /\ stored \in {EmptyDict, LoggedIn}
    /\ now = 0
    /\ issued = 2
    /\ calls = <<>>
    /\ opsDone = 0
    /\ pc = "idle"
    /\ idx = 1
    /\ access_token = NoToken
    /\ last_error = NoError
    /\ outcome = NoOutcome
    /\ log = <<>>
    /\ login = [pc |-> "start"]

NextCallback ==
    \/ LoginListen
    \/ LoginWait
    \/ CallbackArrives
    \/ LoginRaise
    \/ LoginExchange

\* The steps of login() itself are taken when they can be; that a request
\* reaches the listener is up to the browser and the user.
SpecCallback ==
    /\ InitCallback
    /\ [][NextCallback]_vars
    /\ WF_vars(LoginListen)
    /\ WF_vars(LoginRaise)
    /\ WF_vars(LoginExchange)

\* one login attempt through either entry point
NextAttempt ==
    \/ LoginListen
    \/ LoginWait
    \/ CallbackArrives
    \/ ManualPrompt
    \/ ManualPaste
    \/ LoginRaise
    \/ LoginExchange

SpecAttempt == InitCallback /\ [][NextAttempt]_vars


\* ------------------------------------------------------ SpecConv: actions

\* Contents of tool-result turns: a plain string; texts that are the JSON of
\* a number, of a string, of a list, of an object; a text that is cut-off
\* JSON; a list; a dict; None.
ToolContents ==
    { Str(<<Word("done")>>),
      Str(Dumps(Num(7))),
      Str(Dumps(Str(<<Word("ok")>>))),
      Str(Dumps(List(<<Num(1), Num(2)>>))),
      Str(Dumps(ArgsCity)),
      Str(<<Punct("["), NumTok(1)>>),
      List(<<Num(1), Str(<<Word("a")>>)>>),
      ArgsCity,
      NoneV }

\* the entry of origin for a turn the caller wrote
NoOrigin == [caller |-> TRUE]

IsResponse(o) == "caller" \notin DOMAIN o

\* The caller appends a system or a user turn.
ConvAddTurn ==
    /\ Len(messages) < MaxTurns
    /\ messages # <<>> =>
         Get(messages[Len(messages)], "tool_calls", <<>>) = <<>>
    /\ \E m \in {[role |-> "system", content |-> Str(<<Word("be brief")>>)],
                 [role |-> "system", content |-> Str(<<Word("use tools")>>)],
                 [role |-> "user", content |-> Str(TextHello)]} :
         messages' = Append(messages, m)
    /\ origin' = Append(origin, NoOrigin)
    /\ UNCHANGED <<body, sentLen>>
    /\ UNCHANGED <<chatVars, storeVars, fnVars>>

\* index of the latest assistant turn (0 when there is none)
LastAssistant ==
    LET A == {i \in DOMAIN messages : messages[i]["role"] = "assistant"}
    IN  IF A = {} THEN 0 ELSE CHOOSE i \in A : \A j \in A : j <= i

\* The caller appends the result of a call of the latest assistant turn,
\* with the name of the tool or without a name.
ConvAddToolResult ==
    /\ Len(messages) < MaxTurns
    /\ LastAssistant > 0
    /\ \A i \in (LastAssistant + 1)..Len(messages) : messages[i]["role"] = "tool"
    /\ \E tc \in {Get(messages[LastAssistant], "tool_calls", <<>>)[j] :
                    j \in DOMAIN Get(messages[LastAssistant], "tool_calls", <<>>)},
          content \in ToolContents, named \in BOOLEAN :
         /\ named \/ content = Str(<<Word("done")>>)
         /\ messages' = Append(messages,
               IF named
               THEN [role |-> "tool", tool_call_id |-> tc["id"],
                     name |-> tc["function"]["name"], content |-> content]
               ELSE [role |-> "tool", tool_call_id |-> tc["id"],
                     content |-> content])
    /\ origin' = Append(origin, NoOrigin)
    /\ UNCHANGED <<body, sentLen>>
    /\ UNCHANGED <<chatVars, storeVars, fnVars>>

\* chat on the history: the body is built from messages, the answer of the
\* provider is unwrapped and parsed; the caller appends the returned message
\* to its history, which it stops extending at MaxTurns turns.
ConvChat ==
    /\ messages # <<>>
    /\ Len(messages) <= MaxTurns
    /\ messages[Len(messages)]["role"] \in {"user", "tool"}
    /\ body' = _openai_to_google(messages)
    /\ sentLen' = Len(messages)
    /\ IF Len(messages) < MaxTurns
       THEN \E data \in SampleResponses :
              /\ messages' = Append(messages, _google_to_openai_message(Unwrap(data)))
              /\ origin' = Append(origin, data)
       ELSE UNCHANGED <<messages, origin>>
    /\ UNCHANGED <<chatVars, storeVars, fnVars>>

InitConv ==
    /\ InitStoreIdle
    /\ fnIn = EmptyDict
    /\ fnOut = EmptyDict
    /\ login = NoLogin
    /\ messages = <<>>
    /\ origin = <<>>
    /\ body = EmptyDict
    /\ sentLen = 0
    /\ stored = EmptyDict
    /\ now = 0
    /\ issued = 0
    /\ calls = <<>>
    /\ opsDone = 0
    /\ pc = "idle"
    /\ idx = 1
    /\ access_token = NoToken
    /\ last_error = NoError
    /\ outcome = NoOutcome
    /\ log = <<>>

NextConv ==
    \/ ConvAddTurn
    \/ ConvAddToolResult
    \/ ConvChat

SpecConv == InitConv /\ [][NextConv]_vars

\* ------------------------------------------- model names and the envelope
\* Model names are strings; "in", replace and endswith work on their
\* characters.

\* sub in s
Contains(s, sub) ==
    \E i \in 1..(Len(s) - Len(sub) + 1) : SubSeq(s, i, i + Len(sub) - 1) = sub

\* s.endswith(sub)
EndsWith(s, sub) ==
    Len(s) >= Len(sub) /\ SubSeq(s, Len(s) - Len(sub) + 1, Len(s)) = sub

\* s.replace(sub, ""): the occurrences of sub, found from the left without
\* overlap, are removed
RECURSIVE Remove(_, _)
Remove(s, sub) ==
    IF Len(s) < Len(sub) THEN s
    ELSE IF SubSeq(s, 1, Len(sub)) = sub
    THEN Remove(SubSeq(s, Len(sub) + 1, Len(s)), sub)
    ELSE SubSeq(s, 1, 1) \o Remove(SubSeq(s, 2, Len(s)), sub)

_MODEL_MAP ==
    [k \in {"google/gemini-3-pro-preview", "google/gemini-3-flash-preview",
            "google/gemini-3.1-pro-preview", "anthropic/claude-sonnet-4.6",
            "anthropic/claude-opus-4.6", "gemini-3-pro", "gemini-3-pro-low",
            "gemini-3-pro-high", "gemini-3-flash", "gemini-3.1-pro",
            "gemini-3.1-pro-low", "gemini-3.1-pro-high", "claude-sonnet-4-6",
            "claude-opus-4-6", "claude-opus-4-6-thinking"} |->
        CASE k = "google/gemini-3-pro-preview" -> "gemini-3-pro-high"
          [] k = "google/gemini-3-flash-preview" -> "gemini-3-flash"
          [] k = "google/gemini-3.1-pro-preview" -> "gemini-3.1-pro-high"
          [] k = "anthropic/claude-sonnet-4.6" -> "claude-sonnet-4-6"
          [] k = "anthropic/claude-opus-4.6" -> "claude-opus-4-6-thinking"
          [] k = "gemini-3-pro" -> "gemini-3-pro-high"
          [] k = "gemini-3-pro-low" -> "gemini-3-pro-low"
          [] k = "gemini-3-pro-high" -> "gemini-3-pro-high"
          [] k = "gemini-3-flash" -> "gemini-3-flash"
          [] k = "gemini-3.1-pro" -> "gemini-3.1-pro-high"
          [] k = "gemini-3.1-pro-low" -> "gemini-3.1-pro-low"
          [] k = "gemini-3.1-pro-high" -> "gemini-3.1-pro-high"
          [] k = "claude-sonnet-4-6" -> "claude-sonnet-4-6"
          [] k = "claude-opus-4-6" -> "claude-opus-4-6-thinking"
          [] k = "claude-opus-4-6-thinking" -> "claude-opus-4-6-thinking"]

\* _MODEL_MAP.get(model, model)
_resolve_model(model) ==
    IF model \in DOMAIN _MODEL_MAP THEN _MODEL_MAP[model] ELSE model

\* level = "low"; if "-high" in api_model: level = "high"
ThinkingLevel(api_model) ==
    IF Contains(api_model, "-high") THEN "high" ELSE "low"

\* the generation config that leaves maxOutputTokens as the caller gave it
\* for every model
GenerationConfig_NoRaise(api_model, max_tokens) ==
    LET base == [maxOutputTokens |-> max_tokens, temperature |-> "1.0"]
        is_thinking == Contains(api_model, "gemini-3")
                       \/ Contains(api_model, "thinking")
    IN  IF ~is_thinking THEN base
        ELSE IF Contains(api_model, "claude")
        THEN [maxOutputTokens |-> max_tokens,
              temperature |-> "1.0",
              thinkingConfig |-> [include_thoughts |-> TRUE,
                                  thinking_budget |-> 32768]]
        ELSE [maxOutputTokens |-> max_tokens,
              temperature |-> "1.0",
              thinkingConfig |-> [thinkingLevel |-> ThinkingLevel(api_model)]]

\* the generation config of chat: the thinking config is added for the
\* thinking-capable models only, a budget for claude, a level otherwise
GenerationConfig(api_model, max_tokens) ==
    LET base == [maxOutputTokens |-> max_tokens, temperature |-> "1.0"]
        is_thinking == Contains(api_model, "gemini-3")
                       \/ Contains(api_model, "thinking")
    IN  IF ~is_thinking THEN base
        ELSE IF Contains(api_model, "claude")
        THEN [maxOutputTokens |-> IF max_tokens > 65536 THEN max_tokens ELSE 65536,
              temperature |-> "1.0",
              thinkingConfig |-> [include_thoughts |-> TRUE,
                                  thinking_budget |-> 32768]]
        ELSE [maxOutputTokens |-> max_tokens,
              temperature |-> "1.0",
              thinkingConfig |-> [thinkingLevel |-> ThinkingLevel(api_model)]]

\* the model name sent as it was resolved
api_model_clean_NoStrip(api_model) == api_model

\* api_model.replace("-high", "").replace("-low", "")
api_model_clean(api_model) == Remove(Remove(api_model, "-high"), "-low")

\* The body that chat posts: the request converted from the messages, with
\* the generation config, inside the envelope.
Envelope(model, msgs, max_tokens, project_id, request_id) ==
    LET api_model == _resolve_model(model)
        inner_body == Put(_openai_to_google(msgs), "generationConfig",
                          GenerationConfig(api_model, max_tokens))
    IN  [project |-> project_id,
         model |-> api_model_clean(api_model),
         request |-> Put(inner_body, "model", api_model_clean(api_model)),
         requestType |-> "agent",
         userAgent |-> "antigravity",
         requestId |-> request_id]

\* ------------------------------------------------- SpecEnvelope: actions

\* Names that _MODEL_MAP does not know and passes through, with and without
\* a level suffix.
PassThroughModels ==
    {base \o suffix : base \in {"gemini-3-ultra", "google/gemini-3.5-pro",
                                "gemini-2.5-pro", "gpt-5",
                                "claude-sonnet-4-6-thinking"},
                      suffix \in {"", "-high", "-low"}}

ModelNames == DOMAIN _MODEL_MAP \cup PassThroughModels

\* chat up to the first post: the envelope for the model asked for
BuildEnvelope ==
    /\ fnOut.stage = "start"
    /\ \E u \in {"agent-1", "agent-2"} :
         fnOut' = [stage |-> "envelope",
                   body |-> Envelope(fnIn.model,
                                     <<[role |-> "user", content |-> Str(TextHello)]>>,
                                     fnIn.max_tokens,
                                     Get(fnIn.stored, "project_id", DEFAULT_PROJECT_ID),
                                     u)]
    /\ UNCHANGED <<fnIn, login, chatVars, convVars, storeVars>>

InitEnvelope ==
    /\ InitStoreIdle
    /\ messages = <<>>
    /\ origin = <<>>
    /\ body = EmptyDict
    /\ sentLen = 0
    /\ stored = EmptyDict
    /\ now = 0
    /\ issued = 0
    /\ calls = <<>>
    /\ opsDone = 0
    /\ pc = "idle"
    /\ idx = 1
    /\ access_token = NoToken
    /\ last_error = NoError
    /\ outcome = NoOutcome
    /\ log = <<>>
    /\ fnIn \in [model : ModelNames, max_tokens : {1, 16384, 32768, 100000},
                 stored : {EmptyDict, LoggedIn}]
    /\ fnOut = [stage |-> "start"]
    /\ login = NoLogin

NextEnvelope == BuildEnvelope

SpecEnvelope == InitEnvelope /\ [][NextEnvelope]_vars

\* ------------------------------------------------------- schema cleaning

\* if k in ("additionalProperties", "default", "$schema"): continue
UnsupportedKeys == {"additionalProperties", "default", "$schema"}

\* _clean_schema(schema): the loop over schema.items(); a dict value is
\* cleaned, of a list value the items that are dicts are cleaned, any other
\* value and any other item is kept as it is
RECURSIVE CleanItems(_)
CleanItems(items) ==
    IF items = <<>> THEN <<>>
    ELSE LET k == Head(items)[1]
             v == Head(items)[2]
         IN  (IF k \in UnsupportedKeys THEN <<>>
              ELSE IF v.t = "dict" THEN <<<<k, Dict(CleanItems(v.v))>>>>
              ELSE IF v.t = "list"
              THEN <<<<k, List([i \in DOMAIN v.v |->
                                  IF v.v[i].t = "dict"
                                  THEN Dict(CleanItems(v.v[i].v))
                                  ELSE v.v[i]])>>>>
              ELSE <<<<k, v>>>>)
             \o CleanItems(Tail(items))

_clean_schema(schema) == Dict(CleanItems(schema.v))

\* --------------------------------------------------- SpecSchema: actions

SchemaLeaves == {Str(<<Word("string")>>), Num(1)}

\* keys of the objects inside a schema: one the wire supports, two it does
\* not
NestedKeys == {"type", "default", "additionalProperties"}

\* The values nested at most n deep: a leaf, a list of one value, a list of
\* a string and an object, an object of one key.
RECURSIVE SchemaValues(_)
SchemaValues(n) ==
    IF n = 0 THEN SchemaLeaves
    ELSE LET V == SchemaValues(n - 1)
         IN  SchemaLeaves
             \cup {List(<<e>>) : e \in V}
             \cup {List(<<Str(<<Word("a")>>), e>>) : e \in {x \in V : x.t = "dict"}}
             \cup {Dict(<<<<k, e>>>>) : k \in NestedKeys, e \in V}

\* The parameter schemas of a tool: an object with one key and a nested
\* value, alone, or after a "$schema" marker, or before a "required" list.
Schemas ==
    LET marker == <<"$schema", Str(<<Word("http://json-schema.org/draft-07")>>)>>
        required == <<"required", List(<<Str(<<Word("b")>>), Str(<<Word("a")>>)>>)>>
    IN  UNION {{Dict(<<<<k, e>>>>),
                Dict(<<marker, <<k, e>>>>),
                Dict(<<<<k, e>>, required>>)} :
               k \in {"properties", "default"}, e \in SchemaValues(MaxNest)}

\* _convert_tools: cleaned = _clean_schema(params)
CleanSchema ==
    /\ fnOut.stage = "start"
    /\ fnOut' = [stage |-> "cleaned", result |-> _clean_schema(fnIn.schema)]
    /\ UNCHANGED <<fnIn, login, chatVars, convVars, storeVars>>

InitSchema ==
    /\ InitStoreIdle
    /\ messages = <<>>
    /\ origin = <<>>
    /\ body = EmptyDict
    /\ sentLen = 0
    /\ stored = EmptyDict
    /\ now = 0
    /\ issued = 0
    /\ calls = <<>>
    /\ opsDone = 0
    /\ pc = "idle"
    /\ idx = 1
    /\ access_token = NoToken
    /\ last_error = NoError
    /\ outcome = NoOutcome
    /\ log = <<>>
    /\ fnIn \in [schema : Schemas]
    /\ fnOut = [stage |-> "start"]
    /\ login = NoLogin

NextSchema == CleanSchema

SpecSchema == InitSchema /\ [][NextSchema]_vars

\* -------------------------------------------------- SpecProject: actions

\* Bodies of a loadCodeAssist answer: without the project, with an empty
\* one, with null, with the project as a string (two of them), as an object
\* with an id, as an object without id; a body that is a list.
LoadData ==
    {Dict(<<>>),
     Dict(<< <<KEY_COMPANION, Str(<<>>)>> >>),
     Dict(<< <<KEY_COMPANION, NoneV>> >>),
     Dict(<< <<KEY_COMPANION, Str(<<Word("project-1")>>)>> >>),
     Dict(<< <<KEY_COMPANION, Str(<<Word("project-2")>>)>> >>),
     Dict(<< <<KEY_COMPANION,
               Dict(<< <<KEY_ID, Str(<<Word("project-3")>>)>> >>)>> >>),
     Dict(<< <<KEY_COMPANION, Dict(<<>>)>> >>),
     List(<<>>)}

\* What an endpoint of ENDPOINTS_LOAD answers: a success with one of the
\* bodies, a success whose body is no JSON, a non-success, no answer.
LoadAnswers ==
    {HttpAnswer(TRUE, TRUE, d) : d \in LoadData}
    \cup {HttpAnswer(TRUE, FALSE, NoneV), HttpAnswer(FALSE, FALSE, NoneV),
          RequestFailed}

\* one iteration of "for endpoint in ENDPOINTS_LOAD": the request to
\* endpoint number fnOut.i and what follows it
ProjectPost ==
    /\ fnOut.stage = "loop"
    /\ fnOut.i <= Len(ENDPOINTS_LOAD)
    /\ LET d == ProjectIteration(fnIn.answers[fnOut.i])
           q == Append(fnOut.queried, ENDPOINTS_LOAD[fnOut.i])
       IN  fnOut' = IF d.act = "return"
                    THEN [stage |-> "returned", i |-> fnOut.i, queried |-> q,
                          result |-> d.pid]
                    ELSE [stage |-> "loop", i |-> fnOut.i + 1, queried |-> q,
                          result |-> NoneV]
    /\ UNCHANGED <<fnIn, login, chatVars, convVars, storeVars>>

\* after the loop: return DEFAULT_PROJECT_ID
ProjectDefault ==
    /\ fnOut.stage = "loop"
    /\ fnOut.i > Len(ENDPOINTS_LOAD)
    /\ fnOut' = [fnOut EXCEPT !.stage = "returned",
                              !.result = Str(<<Word(DEFAULT_PROJECT_ID)>>)]
    /\ UNCHANGED <<fnIn, login, chatVars, convVars, storeVars>>

InitProject ==
    /\ InitStoreIdle
    /\ messages = <<>>
    /\ origin = <<>>
    /\ body = EmptyDict
    /\ sentLen = 0
    /\ stored = EmptyDict
    /\ now = 0
    /\ issued = 0
    /\ calls = <<>>
    /\ opsDone = 0
    /\ pc = "idle"
    /\ idx = 1
    /\ access_token = NoToken
    /\ last_error = NoError
    /\ outcome = NoOutcome
    /\ log = <<>>
    /\ fnIn \in [answers : [DOMAIN ENDPOINTS_LOAD -> LoadAnswers]]
    /\ fnOut = [stage |-> "loop", i |-> 1, queried |-> <<>>, result |-> NoneV]
    /\ login = NoLogin

NextProject ==
    \/ ProjectPost
    \/ ProjectDefault

SpecProject == InitProject /\ [][NextProject]_vars

\* ------------------------------------------------- SpecLookups: actions

\* Answers of USERINFO_ENDPOINT: a success with the email, without it, with
\* a body that is no JSON, with a body that is a list; a non-success; no
\* answer.
EmailAnswers ==
    {HttpAnswer(TRUE, TRUE,
                Dict(<< <<KEY_EMAIL, Str(<<Word("user@example.com")>>)>> >>)),
     HttpAnswer(TRUE, TRUE, Dict(<<>>)),
     HttpAnswer(TRUE, FALSE, NoneV),
     HttpAnswer(TRUE, TRUE, List(<<>>)),
     HttpAnswer(FALSE, FALSE, NoneV),
     RequestFailed}

\* exchange_code(code, verifier) whose token request is answered fnIn.token,
\* whose email lookup is answered fnIn.email and whose project lookups are
\* answered fnIn.load
ExchangeLookups ==
    /\ calls = <<>>
    /\ LET g == ExchangeWithLookups(stored, now, fnIn.token, issued,
                                    fnIn.email, fnIn.load)
       IN  /\ stored' = g.stored
           /\ issued' = g.issued
           /\ calls' = <<CallRecord("exchange_code", NoToken, stored, now, g)
                         @@ [lookups |-> g.lookups, returned |-> g.returned,
                             answer |-> fnIn.token.kind]>>
    /\ opsDone' = opsDone + 1
    /\ UNCHANGED <<now, pc, idx, access_token, last_error, outcome, log>>
    /\ UNCHANGED <<convVars, storeVars, fnVars>>

InitLookups ==
    /\ InitStoreIdle
    /\ messages = <<>>
    /\ origin = <<>>
    /\ body = EmptyDict
    /\ sentLen = 0
    /\ stored \in {EmptyDict, LoggedIn}
    /\ now = SAFETY_MARGIN
    /\ issued = 2
    /\ calls = <<>>
    /\ opsDone = 0
    /\ pc = "idle"
    /\ idx = 1
    /\ access_token = NoToken
    /\ last_error = NoError
    /\ outcome = NoOutcome
    /\ log = <<>>
    /\ fnIn \in [token : {r \in ExchangeResponses :
                            r.kind = "ok" /\ r.has_rt /\ r.has_at
                            /\ r.ttl \in {EmptyDict,
                                          [expires_in |-> 2 * SAFETY_MARGIN]}},
                 email : EmailAnswers,
                 load : [DOMAIN ENDPOINTS_LOAD -> LoadAnswers]]
    /\ fnOut = EmptyDict
    /\ login = NoLogin

NextLookups == ExchangeLookups

SpecLookups == InitLookups /\ [][NextLookups]_vars

\* ------------------------------------------------ SpecParse: the answers

\* The parts a candidate can hold: a reasoning text, two texts, a signed
\* call without id, a call with an id of the provider, a call whose id of
\* the provider has the form call_{n}, and a call flagged as reasoning.
PartKinds ==
    { [thought |-> TRUE, text |-> <<Word("hmm")>>],
      [text |-> <<Word("checking")>>],
      [text |-> <<Word("done")>>],
      [functionCall |-> [name |-> "get_time", args |-> Dict(<<>>)],
       thoughtSignature |-> "sigA"],
      [functionCall |-> [name |-> "get_weather", args |-> ArgsCity,
                         id |-> "c1"]],
      [functionCall |-> [name |-> "get_time", args |-> Dict(<<>>),
                         id |-> "call_1"]],
      [thought |-> TRUE,
       functionCall |-> [name |-> "get_weather", args |-> ArgsCity]] }

\* the id that the provider gave to the call of a part, "" when none
ProviderId(part) ==
    IF "functionCall" \in DOMAIN part /\ "id" \in DOMAIN part.functionCall
    THEN part.functionCall.id
    ELSE ""

\* The lists of parts of an answer: the ids that the provider gives to the
\* calls of one answer differ.
PartLists ==
    {ps \in UNION {[1..n -> PartKinds] : n \in 0..MaxParts} :
        \A i, j \in DOMAIN ps :
            (i # j /\ ProviderId(ps[i]) # "") =>
                ProviderId(ps[i]) # ProviderId(ps[j])}

\* resp.json() of a success answer with these parts: the payload itself
\* ("bare"), the payload inside the outer envelope ("wrapped"), or the
\* payload beside a "response" member that holds no candidates ("beside"),
\* or the payload, itself holding a "response" member with candidates,
\* inside the outer envelope ("nested"). The usage counts of the payload
\* and of an outer envelope differ.
AnswerData(parts, shape) ==
    LET payload == Put(Response(parts), "usageMetadata",
                       [promptTokenCount |-> 3, candidatesTokenCount |-> 2])
    IN  CASE shape = "bare" -> payload
          [] shape = "wrapped" ->
               [response |-> payload, traceId |-> "t1",
                usageMetadata |-> [promptTokenCount |-> 9]]
          [] shape = "nested" ->
               [response |-> Put(payload, "response", TextReply),
                traceId |-> "t1",
                usageMetadata |-> [promptTokenCount |-> 9]]
          [] OTHER -> Put(payload, "response", [traceId |-> "t1"])

\* chat after resp.json(): unwrap, then the message and the usage
ParseData ==
    /\ fnOut.stage = "start"
    /\ LET data == Unwrap(fnIn.data)
       IN  fnOut' = [stage |-> "parsed",
                     msg |-> _google_to_openai_message(data),
                     usage |-> _extract_usage(data)]
    /\ UNCHANGED <<fnIn, login, chatVars, convVars, storeVars>>

InitParse ==
    /\ InitStoreIdle
    /\ messages = <<>>
    /\ origin = <<>>
    /\ body = EmptyDict
    /\ sentLen = 0
    /\ stored = EmptyDict
    /\ now = 0
    /\ issued = 0
    /\ calls = <<>>
    /\ opsDone = 0
    /\ pc = "idle"
    /\ idx = 1
    /\ access_token = NoToken
    /\ last_error = NoError
    /\ outcome = NoOutcome
    /\ log = <<>>
    /\ \E parts \in PartLists, shape \in {"bare", "wrapped", "beside", "nested"} :
         fnIn = [parts |-> parts, shape |-> shape,
                 data |-> AnswerData(parts, shape)]
    /\ fnOut = [stage |-> "start"]
    /\ login = NoLogin

NextParse == ParseData

SpecParse == InitParse /\ [][NextParse]_vars

\* ===================================================================
\* Properties of the dispatcher (SpecChat)
\* ===================================================================

NumEndpoints == Len(ENDPOINTS)

\* chat has returned or raised
Finished == pc \in {"returned", "raised"}

\* chat got an access token and entered the endpoint loop
Started == access_token # NoToken

\* the answer of the latest request
LastAnswer == log[Len(log)].resp

\* Every answer so far fits "E1..Ek-1 answer 429 or 403 and Ek answers 200".
Conforms(k) ==
    \A i \in DOMAIN log :
        /\ log[i].ep < k =>
             log[i].resp.kind = "http" /\ log[i].resp.status \in {429, 403}
        /\ log[i].ep = k =>
             log[i].resp.kind = "http" /\ log[i].resp.status = 200

\* C1: when the endpoints before Ek answer 429 or 403 and Ek answers 200,
\* chat ends by returning the (message, usage) parsed from Ek's answer; it
\* does not raise the all-endpoints-failed error. (k = NumEndpoints is the
\* claim's En; a smaller k is a shorter list.)
C1_FailoverReachesSuccess ==
    \A k \in 1..NumEndpoints :
        (Finished /\ Started /\ Conforms(k)) =>
            /\ outcome.kind = "return"
            /\ outcome.ep = k
            /\ log # <<>>
            /\ log[Len(log)].ep = k
            /\ outcome.res = ParseBody(LastAnswer.payload)

C1_Witness ==
    /\ pc = "returned"
    /\ Len(log) = NumEndpoints
    /\ Conforms(NumEndpoints)
    /\ {log[i].resp.status : i \in 1..(NumEndpoints - 1)} = {429, 403}
    /\ outcome.ep = NumEndpoints

\* C2: when every endpoint failed, chat raises the one aggregated error and
\* it cites the failure recorded last, that of the last endpoint of the
\* list; after 404 answers from all endpoints it names the last endpoint,
\* the status 404 and the first 200 characters of that endpoint's body.
C2_AggregatedErrorCitesLast ==
    /\ (Finished /\ Started
        /\ \A i \in DOMAIN log : ~(log[i].resp.kind = "http"
                                   /\ log[i].resp.status = 200))
       => pc = "raised"
    /\ (pc = "raised" /\ Started) =>
         /\ outcome.kind = "AllFailed"
         /\ log # <<>>
         /\ log[Len(log)].ep = NumEndpoints
         /\ outcome.last.endpoint = ENDPOINTS[NumEndpoints]
         /\ (LastAnswer.kind = "http" /\ LastAnswer.status \in {403, 400, 404}) =>
              /\ outcome.last.fmt = "from"
              /\ outcome.last.status = LastAnswer.status
              /\ outcome.last.text.text = LastAnswer.body.text
              /\ outcome.last.text.len =
                   (IF LastAnswer.body.len < ERR_EXCERPT
                    THEN LastAnswer.body.len ELSE ERR_EXCERPT)

C2_Witness ==
    /\ pc = "raised"
    /\ Len(log) = NumEndpoints
    /\ \A i \in DOMAIN log : log[i].resp.status = 404
    /\ log[1].resp.body # LastAnswer.body
    /\ LastAnswer.body.len > ERR_EXCERPT
    /\ outcome.last.status = 404

\* C3: after a 401 chat refreshes the token once (one request to the token
\* endpoint, the retry carries a newly issued token) and sends the request
\* to the same endpoint once more, and never a third time.
C3_RefreshOnceRetryOnce ==
    /\ pc = "retry" =>
         /\ calls[Len(calls)].net = 1
         /\ access_token # log[Len(log)].token
    /\ \A e \in 1..NumEndpoints :
         Cardinality({i \in DOMAIN log : log[i].ep = e}) <= 2
    /\ \A i \in DOMAIN log :
         log[i].retry =>
            /\ i > 1
            /\ log[i - 1].ep = log[i].ep
            /\ ~log[i - 1].retry
            /\ log[i - 1].resp.kind = "http" /\ log[i - 1].resp.status = 401

\* a status that is none of 200, 401, 429, 403, 400, 404
OtherFailure(a) ==
    a.kind = "http" /\ a.status \notin {200, 401, 429, 403, 400, 404}

\* C4 as stated: after such an answer chat raises at once, so the answer is
\* the last one of the log and chat has raised.
C4_OtherStatusPropagates ==
    \A i \in DOMAIN log :
        OtherFailure(log[i].resp) => i = Len(log) /\ pc = "raised"

\* C4 amended: an answer with another non-success status (500) is recorded
\* as the failure of its endpoint ("Error on <endpoint>") and absorbed: the
\* next request goes to the next endpoint, and the caller gets an error only
\* if it was the last endpoint, and then the aggregated one.
C4_OtherStatusAbsorbed ==
    \A i \in DOMAIN log :
        OtherFailure(log[i].resp) =>
            IF i < Len(log)
            THEN log[i + 1].ep = log[i].ep + 1 /\ ~log[i + 1].retry
            ELSE /\ last_error.fmt = "Error on"
                 /\ last_error.endpoint = ENDPOINTS[log[i].ep]
                 /\ IF log[i].ep < NumEndpoints
                    THEN pc = "post" /\ idx = log[i].ep + 1
                         /\ outcome = NoOutcome
                    ELSE pc = "raised" /\ outcome.kind = "AllFailed"
                         /\ outcome.last = last_error

C4_Witness ==
    /\ Len(log) >= 2
    /\ OtherFailure(log[1].resp)
    /\ log[2].ep = 2
    /\ pc = "returned"

\* a failure of one of the kinds 429, 403, 400, 404, timeout, exception
AbsorbedFailure(a) ==
    \/ a.kind \in {"timeout", "exception"}
    \/ a.kind = "http" /\ a.status \in {429, 403, 400, 404}

\* C5: a 429, 403, 400, 404, timeout or transport exception is recorded in
\* last_error and absorbed: no later request goes to that endpoint, the next
\* request goes to the next endpoint, and chat raises only when the failed
\* endpoint was the last of the list.
C5_FailuresAbsorbed ==
    \A i \in DOMAIN log :
        AbsorbedFailure(log[i].resp) =>
            /\ \A j \in DOMAIN log : j > i => log[j].ep # log[i].ep
            /\ i < Len(log) =>
                 log[i + 1].ep = log[i].ep + 1 /\ ~log[i + 1].retry
            /\ i = Len(log) =>
                 /\ last_error.endpoint = ENDPOINTS[log[i].ep]
                 /\ last_error.status = log[i].resp.status
                 /\ IF log[i].ep < NumEndpoints
                    THEN pc = "post" /\ idx = log[i].ep + 1
                         /\ outcome = NoOutcome
                    ELSE pc = "raised" /\ outcome.kind = "AllFailed"

C5_Witness ==
    /\ Len(log) = 3
    /\ log[1].resp.kind = "timeout"
    /\ log[2].resp.kind = "exception"
    /\ log[3].resp.status = 400
    /\ pc = "raised"

\* ===================================================================
\* Properties of the token lifecycle (Spec)
\* ===================================================================

\* the record c.before holds a refresh_token
HasRefreshToken(c) == Get(c.before, "refresh_token", NoToken) # NoToken

\* the record c.before holds an access_token that is not expired at c.at
CacheValid(c) ==
    /\ Get(c.before, "access_token", NoToken) # NoToken
    /\ c.at < Get(c.before, "expires_at", 0)

\* C6, first two parts: a get_access_token that finds a cached, unexpired
\* access_token returns it with no request to the token endpoint and leaves
\* the record alone; one that finds it expired or missing sends exactly one.
C6_CacheAndSingleRefresh ==
    \A i \in DOMAIN calls :
        LET c == calls[i]
        IN  (c.op = "get_access_token" /\ HasRefreshToken(c)) =>
               IF CacheValid(c)
               THEN /\ c.kind = "ok" /\ c.net = 0
                    /\ c.token = c.before["access_token"]
                    /\ (i = Len(calls) => stored = c.before)
               ELSE c.net = 1

\* calls[1] refreshed the record of a logged-in store with success and
\* calls[2] is a get_access_token made right after it (the clock has not
\* moved)
SecondCallAfterRefresh ==
    /\ Len(calls) = 2
    /\ HasRefreshToken(calls[1])
    /\ calls[1].kind = "ok" /\ calls[1].net = 1
    /\ calls[2].op = "get_access_token"
    /\ calls[2].at = calls[1].at

\* C6 as stated: ... and a get_access_token made right after a successful
\* refresh sends no request.
C6_Original ==
    /\ C6_CacheAndSingleRefresh
    /\ SecondCallAfterRefresh => calls[2].net = 0

\* C6 amended: ... and a get_access_token made right after a successful
\* refresh sends no request provided the lifetime the refresh was answered
\* with (expires_in, 3600 when missing) exceeds the 60 s safety margin;
\* with a shorter lifetime the new expires_at is not later than now and the
\* second call refreshes again.
C6_Amended ==
    /\ C6_CacheAndSingleRefresh
    /\ SecondCallAfterRefresh =>
         IF calls[1].ttl > SAFETY_MARGIN
         THEN calls[2].net = 0 /\ calls[2].kind = "ok"
              /\ calls[2].token = calls[1].token
         ELSE calls[2].net = 1

C6_Witness ==
    /\ SecondCallAfterRefresh
    /\ calls[1].op = "get_access_token"
    /\ ~CacheValid(calls[1])
    /\ calls[1].ttl > SAFETY_MARGIN
    /\ calls[2].net = 0

\* C7: get_access_token, and refresh_access_token without an argument, on a
\* store with no record or no refresh_token fail with the not-logged-in
\* error, send nothing to the token endpoint and leave the record as it was.
C7_NotLoggedIn ==
    \A i \in DOMAIN calls :
        LET c == calls[i]
        IN  (~HasRefreshToken(c) /\ c.arg = NoToken) =>
               /\ c.kind = "NotLoggedIn"
               /\ c.net = 0
               /\ (i = Len(calls) => stored = c.before)
               /\ (i < Len(calls) => calls[i + 1].before = c.before)

C7_Witness ==
    /\ Len(calls) = 2
    /\ calls[1].op = "get_access_token" /\ calls[1].before = EmptyDict
    /\ calls[1].kind = "NotLoggedIn"
    /\ calls[2].op = "refresh_access_token" /\ calls[2].arg = NoToken
    /\ calls[2].kind = "NotLoggedIn"
    /\ stored = EmptyDict

\* ===================================================================
\* Properties of the protocol bridge (SpecConv)
\* ===================================================================

\* position in body.contents of the wire turn of messages[i]
WireIndex(i) ==
    Cardinality({j \in 1..i : messages[j]["role"] # "system"})

\* the function-call parts among parts
FunctionCalls(parts) ==
    SelectSeq(parts, LAMBDA p : "functionCall" \in DOMAIN p)

\* The parts of a provider response that are tool calls: function-call parts
\* that are not flagged as reasoning.
ResponseCalls(data) ==
    LET cands == Get(Unwrap(data), "candidates", <<>>)
    IN  IF cands = <<>> THEN <<>>
        ELSE SelectSeq(cands[1]["content"]["parts"],
                       LAMBDA p : /\ "functionCall" \in DOMAIN p
                                  /\ "text" \notin DOMAIN p
                                  /\ ~Get(p, "thought", FALSE))

\* messages[i] was parsed from a response whose k-th tool call carried a
\* continuation token
SignedCall(i, k) ==
    /\ IsResponse(origin[i])
    /\ k \in DOMAIN ResponseCalls(origin[i])
    /\ "thoughtSignature" \in DOMAIN ResponseCalls(origin[i])[k]
    /\ ResponseCalls(origin[i])[k]["thoughtSignature"] # ""

\* C8: in every request, each tool call of the history that the provider
\* had sent with a thoughtSignature is on the function-call part of its
\* model turn with the same name and the identical thoughtSignature.
C8_SignaturePreserved ==
    \A i \in 1..sentLen :
        \A k \in 1..Len(ResponseCalls(origin[i])) :
            SignedCall(i, k) =>
                LET turn == body["contents"][WireIndex(i)]
                    sent == FunctionCalls(turn["parts"])
                    call == ResponseCalls(origin[i])[k]
                IN  /\ turn["role"] = "model"
                    /\ Len(sent) = Len(ResponseCalls(origin[i]))
                    /\ sent[k]["functionCall"]["name"] = call["functionCall"]["name"]
                    /\ "thoughtSignature" \in DOMAIN sent[k]
                    /\ sent[k]["thoughtSignature"] = call["thoughtSignature"]

\* a request that replays two signed tool calls of two sequential steps,
\* with different signatures
C8_Witness ==
    \E i, j \in 1..sentLen :
        /\ i < j
        /\ SignedCall(i, 1) /\ SignedCall(j, 1)
        /\ ResponseCalls(origin[i])[1]["thoughtSignature"]
             # ResponseCalls(origin[j])[1]["thoughtSignature"]
        /\ FunctionCalls(body["contents"][WireIndex(j)]["parts"])[1]["thoughtSignature"]
             = ResponseCalls(origin[j])[1]["thoughtSignature"]

\* the response of the function-result part that body holds for messages[i]
SentResponse(i) ==
    body["contents"][WireIndex(i)]["parts"][1]["functionResponse"]["response"]

\* the dict with the single key "result"
Wrapped(x) == Dict(<< <<(<<Word("result")>>), x>> >>)

\* C9: the response of every function-result part is an object: the content
\* itself when it is a dict or the JSON text of an object, else an object
\* with the single key "result" holding the list or scalar (the content, or
\* what its JSON text decodes to) or the text that is no JSON.
C9_ToolResponseIsObject ==
    \A i \in 1..sentLen :
        messages[i]["role"] = "tool" =>
            LET content == messages[i]["content"]
                sent == SentResponse(i)
                turn == body["contents"][WireIndex(i)]
            IN  /\ turn["role"] = "user" /\ Len(turn["parts"]) = 1
                /\ sent.t = "dict"
                /\ content.t = "dict" => sent = content
                /\ content.t \in {"list", "int", "none"} => sent = Wrapped(content)
                /\ content.t = "str" =>
                     IF Loads(content.v).ok
                     THEN IF Loads(content.v).val.t = "dict"
                          THEN sent = Loads(content.v).val
                          ELSE sent = Wrapped(Loads(content.v).val)
                     ELSE sent = Wrapped(content)

\* a request with the result turns of a plain string and of a list
C9_Witness ==
    \E i, j \in 1..sentLen :
        /\ messages[i]["role"] = "tool" /\ messages[j]["role"] = "tool"
        /\ messages[i]["content"] = Str(<<Word("done")>>)
        /\ messages[j]["content"].t = "list"
        /\ SentResponse(i) = Wrapped(Str(<<Word("done")>>))
        /\ SentResponse(j).t = "dict"

\* ===================================================================
\* Properties of the credential file (SpecStore)
\* ===================================================================

\* C10: a _load_stored that runs while one caller is inside _save_stored,
\* the file having held a complete record when that save began, returns the
\* complete old record or the complete new one, never an empty or a
\* partially written one.
C10_LoadSeesOldOrNew ==
    \A p \in Procs :
        \A sv \in seen[p].saves :
            (seen[p].saves = {sv} /\ Loads(sv[1]).ok) =>
                seen[p].result \in {_load_stored(sv[1]), _load_stored(sv[2])}

\* every caller has finished the operation it ran
Quiescent == \A p \in Procs : ppc[p] = "idle"

\* C11: when the callers have run nothing but refresh_access_token() and
\* all have finished, the file holds the refresh_token that the provider
\* issued last, with an access_token and an expires_at that come from one
\* and the same refresh response.
C11_ConcurrentRefreshBenign ==
    (Quiescent /\ started \subseteq {"refresh_access_token"}) =>
        LET rec == _load_stored(file)
        IN  /\ Get(rec, "refresh_token", NoToken) = provider.rt
            /\ GrantOf(rec) \in provider.grants

\* ===================================================================
\* Properties of exchange_code (SpecLogin)
\* ===================================================================

\* the record that the file holds after call number i of calls
StoredAfter(i) == IF i = Len(calls) THEN stored ELSE calls[i + 1].before

\* call number i is an exchange_code that the token endpoint answered with
\* a success holding both tokens
GoodExchange(i) ==
    /\ calls[i].op = "exchange_code"
    /\ calls[i].answer = "ok"
    /\ calls[i].has_rt /\ calls[i].has_at

\* the record of a successful exchange is returned and persisted, with both
\* tokens
ExchangeYieldsTokens(i) ==
    /\ calls[i].kind = "ok"
    /\ StoredAfter(i) = calls[i].returned
    /\ calls[i].returned["refresh_token"] # NoToken
    /\ calls[i].returned["access_token"] # NoToken

\* C13 as stated: whatever lifetime the success response gives, the record
\* persisted and returned has both tokens and an expires_at strictly later
\* than the time of the exchange.
C13_ExpiresInFuture ==
    \A i \in DOMAIN calls :
        GoodExchange(i) =>
            /\ ExchangeYieldsTokens(i)
            /\ calls[i].returned["expires_at"] > calls[i].at

\* C13 amended: the record has both tokens and its expires_at is the time
\* of the exchange plus the lifetime (3600 when missing) minus the safety
\* margin, hence strictly later than the exchange exactly when the lifetime
\* exceeds the margin.
C13_ExpiresAtMinusMargin ==
    \A i \in DOMAIN calls :
        GoodExchange(i) =>
            /\ ExchangeYieldsTokens(i)
            /\ calls[i].returned["expires_at"]
                 = calls[i].at + calls[i].ttl - SAFETY_MARGIN
            /\ (calls[i].returned["expires_at"] > calls[i].at
                  <=> calls[i].ttl > SAFETY_MARGIN)

\* two successful exchanges after time has passed: one with a lifetime
\* below the margin, whose expires_at is not in the future, and one with
\* the default lifetime
C13_Witness ==
    /\ Len(calls) = 2
    /\ GoodExchange(1) /\ GoodExchange(2)
    /\ calls[1].at > 0
    /\ calls[1].ttl < SAFETY_MARGIN
    /\ calls[1].returned["expires_at"] < calls[1].at
    /\ calls[2].ttl = DEFAULT_EXPIRES_IN
    /\ stored = calls[2].returned

\* C14: an exchange_code whose success response lacks the refresh_token or
\* the access_token raises (ValueError), one that the token endpoint
\* rejects raises HTTPError; either way no lookup is made and the stored
\* record is left as it was.
C14_MissingTokensNothingPersisted ==
    \A i \in DOMAIN calls :
        LET c == calls[i]
        IN  c.op = "exchange_code" =>
              /\ (c.answer = "ok" /\ (~c.has_rt \/ ~c.has_at)) =>
                    /\ c.kind = "ValueError"
                    /\ c.lookups = 0
                    /\ StoredAfter(i) = c.before
              /\ c.answer = "reject" =>
                    /\ c.kind = "HTTPError"
                    /\ c.lookups = 0
                    /\ StoredAfter(i) = c.before

\* a response without refresh_token, then a rejected code, both with a
\* record stored before
C14_Witness ==
    /\ Len(calls) = 2
    /\ calls[1].op = "exchange_code" /\ calls[2].op = "exchange_code"
    /\ calls[1].before = LoggedIn
    /\ calls[1].answer = "ok" /\ ~calls[1].has_rt /\ calls[1].has_at
    /\ calls[1].kind = "ValueError"
    /\ calls[2].answer = "reject"
    /\ stored = LoggedIn

\* C12: the bridge never writes a record without a refresh_token: the text
\* of every _save_stored in progress holds a non-empty refresh_token, and so
\* does the file when every caller has finished.
C12_RefreshTokenNeverLost ==
    /\ \A p \in Procs :
          ppc[p] = "write" =>
              Get(_load_stored(wtext[p]), "refresh_token", NoToken) # NoToken
    /\ Quiescent =>
          Get(_load_stored(file), "refresh_token", NoToken) # NoToken

\* ===================================================================
\* Properties of the state codec (SpecState)
\* ===================================================================

\* C15: _decode_state gives back the verifier and the project hint that
\* _encode_state encoded, whether the state is presented as encoded (its
\* padding stripped) or with padding.
C15_StateRoundTrip ==
    fnOut.stage = "decoded" =>
        fnOut.decoded = [ok |-> TRUE, verifier |-> fnIn.verifier,
                         project_id |-> fnIn.project_id]

\* a state that needs two '=' and was presented with both, whose text has
\* the URL-safe character _, decoded to the verifier ?+ and the hint "
C15_Witness ==
    /\ fnOut.stage = "decoded"
    /\ Len(fnOut.state) % 4 = 0
    /\ SubSeq(fnOut.state, Len(fnOut.state) - 1, Len(fnOut.state)) = <<PAD, PAD>>
    /\ \E i \in DOMAIN fnOut.state : fnOut.state[i] = 95
    /\ fnOut.decoded.ok
    /\ fnOut.decoded.verifier = <<63, 43>>
    /\ fnOut.decoded.project_id = <<34>>

\* ===================================================================
\* Properties of the interactive login (SpecCallback)
\* ===================================================================

\* C16: login() terminates, with a record or an error, even when no request
\* ever reaches the local listener.
C16_LoginTerminates == <>(login.pc \in {"returned", "raised"})

\* ===================================================================
\* Properties of the system turns (SpecConv)
\* ===================================================================

\* the texts of the system turns of a history, in their order
RECURSIVE SystemTexts(_)
SystemTexts(msgs) ==
    IF msgs = <<>> THEN <<>>
    ELSE (IF Get(Head(msgs), "role", "user") = "system"
          THEN <<TextOf(Get(Head(msgs), "content", Str(<<>>)))>>
          ELSE <<>>) \o SystemTexts(Tail(msgs))

\* the text of the parts of a wire turn or instruction, one after another
RECURSIVE PartsText(_)
PartsText(parts) ==
    IF parts = <<>> THEN <<>>
    ELSE (IF "text" \in DOMAIN Head(parts) /\ Head(parts)["text"].t = "str"
          THEN Head(parts)["text"].v ELSE <<>>) \o PartsText(Tail(parts))

\* the pieces occur in the text from position from on, one after another in
\* their order, with anything or nothing between them
RECURSIVE InOrder(_, _, _)
InOrder(text, pieces, from) ==
    IF pieces = <<>> THEN TRUE
    ELSE \E p \in from..(Len(text) - Len(Head(pieces)) + 1) :
           /\ SubSeq(text, p, p + Len(Head(pieces)) - 1) = Head(pieces)
           /\ InOrder(text, Tail(pieces), p + Len(Head(pieces)))

\* C17: the systemInstruction of the body holds the text of every system
\* turn of the history sent, in the order of the turns, and no turn of
\* contents holds the text of a system turn.
C17_AllSystemTurnsInInstruction ==
    sentLen > 0 =>
        LET sys == SystemTexts(SubSeq(messages, 1, sentLen))
        IN  /\ InOrder(IF "systemInstruction" \in DOMAIN body
                       THEN PartsText(body["systemInstruction"]["parts"])
                       ELSE <<>>, sys, 1)
            /\ \A i \in DOMAIN body["contents"], k \in DOMAIN sys :
                 PartsText(body["contents"][i]["parts"]) # sys[k]

\* ===================================================================
\* Properties of the envelope (SpecEnvelope)
\* ===================================================================

\* the resolved id is of the leveled scheme: a gemini-3 name, no claude
Leveled(api_model) ==
    Contains(api_model, "gemini-3") /\ ~Contains(api_model, "claude")

RECURSIVE Stripped(_)
RECURSIVE StrippedItems(_)
Stripped(x) ==
    CASE x.t = "dict" -> Dict(StrippedItems(x.v))
      [] x.t = "list" -> List([i \in DOMAIN x.v |-> Stripped(x.v[i])])
      [] OTHER -> x

StrippedItems(items) ==
    IF items = <<>> THEN <<>>
    ELSE (IF Head(items)[1] \in UnsupportedKeys THEN <<>>
          ELSE <<<<Head(items)[1], Stripped(Head(items)[2])>>>>)
         \o StrippedItems(Tail(items))

\* C19: _clean_schema returns the schema with additionalProperties, default
\* and $schema removed from every object at every depth, through objects,
\* arrays and arrays in arrays, every other key, value and array element
\* in its place.
C19_CleanedAtEveryDepth ==
    fnOut.stage = "cleaned" => fnOut.result = Stripped(fnIn.schema)

\* ===================================================================
\* Properties of a response without candidate (SpecChat, SpecConv)
\* ===================================================================

\* the answer data, or the response inside it, has no "candidates" member
\* or an empty one
NoCandidate(data) ==
    LET inner == IF "response" \in DOMAIN data THEN data["response"] ELSE data
    IN  "candidates" \notin DOMAIN inner \/ inner["candidates"] = <<>>

\* an assistant turn with empty content and no tool calls
EmptyTurn(msg) ==
    /\ msg["role"] = "assistant"
    /\ ~Truthy(msg["content"])
    /\ "tool_calls" \notin DOMAIN msg

\* C20: when the answer chat received last is a success without candidate,
\* chat has returned, and what it returned is an assistant turn with empty
\* content and no tool calls.
C20_NoCandidateEmptyTurn ==
    (/\ log # <<>>
     /\ log[Len(log)].resp.kind = "http"
     /\ log[Len(log)].resp.status = 200
     /\ NoCandidate(log[Len(log)].resp.payload)) =>
        /\ pc = "returned"
        /\ outcome.kind = "return"
        /\ EmptyTurn(outcome.res.msg)

\* chat has returned the empty turn for an answer whose candidates are an
\* empty list inside the outer envelope, received from the second endpoint
C20_Witness ==
    /\ pc = "returned"
    /\ Len(log) >= 2
    /\ log[Len(log)].resp.payload = EmptyCandidates
    /\ outcome.kind = "return"
    /\ outcome.res.msg = [role |-> "assistant", content |-> NoneV]

\* ===================================================================
\* Properties of project discovery (SpecProject)
\* ===================================================================

\* the identifier that a successful answer carries: the project given as a
\* string, or the id of the project given as an object; none otherwise
IdentifierOf(a) ==
    IF a.kind = "http" /\ a.ok /\ a.parses /\ a.data.t = "dict"
    THEN LET p == DictGet(a.data, KEY_COMPANION, NoneV)
         IN  CASE p.t = "str" -> p
               [] p.t = "dict" -> DictGet(p, KEY_ID, NoneV)
               [] OTHER -> NoneV
    ELSE NoneV

\* the answer is a success with a non-empty identifier
Usable(a) == IdentifierOf(a).t = "str" /\ IdentifierOf(a).v # <<>>

\* C21: _fetch_project_id has queried the endpoints in list order up to the
\* first whose answer is a success with a non-empty identifier, and returns
\* that identifier; when no endpoint gives one it has queried all of them
\* and returns the default identifier.
C21_FirstUsableWins ==
    fnOut.stage = "returned" =>
        LET U == {i \in DOMAIN ENDPOINTS_LOAD : Usable(fnIn.answers[i])}
            first == CHOOSE i \in U : \A j \in U : i <= j
        IN  IF U = {}
            THEN /\ fnOut.result = Str(<<Word(DEFAULT_PROJECT_ID)>>)
                 /\ fnOut.queried = ENDPOINTS_LOAD
            ELSE /\ fnOut.result = IdentifierOf(fnIn.answers[first])
                 /\ fnOut.queried = SubSeq(ENDPOINTS_LOAD, 1, first)

\* the first endpoint fails, the second answers an empty identifier, the
\* third answers an object with an id, which is returned
C21_Witness ==
    /\ fnOut.stage = "returned"
    /\ fnIn.answers[1] = RequestFailed
    /\ fnIn.answers[2] = HttpAnswer(TRUE, TRUE,
                                    Dict(<< <<KEY_COMPANION, Str(<<>>)>> >>))
    /\ fnOut.result = Str(<<Word("project-3")>>)
    /\ Len(fnOut.queried) = 3

\* ===================================================================
\* Properties of the refresh (Spec)
\* ===================================================================

\* C22: a refresh that the token endpoint answered with a success returns
\* the newly issued access_token and leaves it stored, with expires_at the
\* time of the call plus the lifetime answered minus the safety margin; the
\* stored refresh_token is the new one when the answer held one and the one
\* stored before otherwise; the other fields of the record stay.
C22_RefreshUpdatesRecord ==
    \A i \in DOMAIN calls :
        LET c == calls[i]
            after == StoredAfter(i)
        IN  c.answer = "ok" =>
              /\ c.kind = "ok"
              /\ c.token # NoToken
              /\ c.token \notin {Get(c.before, "access_token", NoToken),
                                 Get(c.before, "refresh_token", NoToken)}
              /\ {"access_token", "expires_at"} \subseteq DOMAIN after
              /\ after["access_token"] = c.token
              /\ after["expires_at"] = c.at + c.ttl - SAFETY_MARGIN
              /\ IF c.rotated
                 THEN /\ "refresh_token" \in DOMAIN after
                      /\ after["refresh_token"] = c.token + 1
                      /\ after["refresh_token"]
                           # Get(c.before, "refresh_token", NoToken)
                 ELSE Get(after, "refresh_token", NoToken)
                        = Get(c.before, "refresh_token", NoToken)
              /\ \A k \in DOMAIN c.before \ {"access_token", "expires_at",
                                             "refresh_token"} :
                   k \in DOMAIN after /\ after[k] = c.before[k]

\* a refresh with rotation followed, after the clock moved, by a refresh
\* without rotation that keeps the rotated refresh_token
C22_Witness ==
    /\ Len(calls) = 2
    /\ calls[1].answer = "ok" /\ calls[1].rotated
    /\ calls[2].answer = "ok" /\ ~calls[2].rotated
    /\ calls[2].at > calls[1].at
    /\ stored["refresh_token"] = calls[1].token + 1
    /\ stored["access_token"] = calls[2].token
    /\ stored["expires_at"] = calls[2].at + calls[2].ttl - SAFETY_MARGIN

\* C23: a refresh that the token endpoint answered with a non-2xx status
\* raises (HTTPError), returns no token, and leaves the stored record as it
\* was.
C23_RejectedRefreshLeavesRecord ==
    \A i \in DOMAIN calls :
        calls[i].answer = "reject" =>
            /\ calls[i].kind = "HTTPError"
            /\ calls[i].token = NoToken
            /\ StoredAfter(i) = calls[i].before

\* get_access_token found the cached token expired, refreshed and was
\* rejected: the record of the logged-in user is still the stored one
C23_Witness ==
    /\ calls # <<>>
    /\ calls[Len(calls)].op = "get_access_token"
    /\ calls[Len(calls)].answer = "reject"
    /\ calls[Len(calls)].kind = "HTTPError"
    /\ stored = LoggedIn

\* ===================================================================
\* Properties of the lookups of exchange_code (SpecLookups)
\* ===================================================================

\* the request of a lookup got a non-success answer or no answer
LookupFailed(a) == a.kind = "exception" \/ ~a.ok

\* C24: whatever the email lookup and the project lookups are answered,
\* an exchange_code that received both tokens returns, and the record it
\* returns is the record stored, with both tokens; the email is "" when the
\* email lookup failed, the project is the default when the lookup failed
\* on every endpoint.
C24_LookupFailuresNotFatal ==
    calls # <<>> =>
        /\ calls[1].kind = "ok"
        /\ stored = calls[1].returned
        /\ DOMAIN stored = {"refresh_token", "access_token", "expires_at",
                            "email", "project_id"}
        /\ stored["refresh_token"] # NoToken
        /\ stored["access_token"] # NoToken
        /\ LookupFailed(fnIn.email) => stored["email"] = ""
        /\ (\A i \in DOMAIN fnIn.load : LookupFailed(fnIn.load[i])) =>
               stored["project_id"] = DEFAULT_PROJECT_ID
        /\ (\E i \in DOMAIN fnIn.load : Usable(fnIn.load[i])) =>
               stored["project_id"] # DEFAULT_PROJECT_ID

\* the email lookup got no answer and every project endpoint failed, one
\* with an exception: the record is stored with "" and the default project
C24_Witness ==
    /\ calls # <<>>
    /\ fnIn.email = RequestFailed
    /\ \A i \in DOMAIN fnIn.load : LookupFailed(fnIn.load[i])
    /\ fnIn.load[2] = RequestFailed
    /\ calls[1].kind = "ok"
    /\ stored["email"] = ""
    /\ stored["project_id"] = DEFAULT_PROJECT_ID
    /\ stored["refresh_token"] # NoToken

\* ===================================================================
\* Properties of a login attempt (SpecAttempt)
\* ===================================================================

\* C25: in a login attempt, through the listener or through the pasted
\* URL, a request goes to the token endpoint, the stored record is written
\* or a token is issued only in the one step that calls exchange_code,
\* which is taken once, after a code was received; an attempt that received
\* no code goes on to raise and does nothing else.
C25_OneExchangeAfterCode ==
    [][/\ calls' # calls =>
            /\ calls = <<>> /\ Len(calls') = 1
            /\ calls'[1].op = "exchange_code"
            /\ login.pc = "handled" /\ login.code # "None"
       /\ (stored' # stored \/ issued' # issued) => calls' # calls
       /\ (login.pc = "handled" /\ login.code = "None") =>
            /\ login'.pc = "raised"
            /\ calls' = calls /\ stored' = stored
       /\ login.pc \in {"raised", "returned"} => login' = login
       /\ login'.pc = "returned" => calls' # calls]_vars

\* nothing was pasted: login_manual has raised before it parsed anything,
\* no request went to the token endpoint, the record of the logged-in user
\* is still stored
C25_Witness ==
    /\ login.pc = "raised"
    /\ "decoded" \notin DOMAIN login
    /\ login.code = "None"
    /\ calls = <<>>
    /\ issued = 2
    /\ stored = LoggedIn

\* ===================================================================
\* Properties of parallel tool calls (SpecConv)
\* ===================================================================

\* messages[i] was parsed from a response with several tool calls of which
\* some carried a continuation token and some did not
PartlySigned(i) ==
    /\ IsResponse(origin[i])
    /\ Len(ResponseCalls(origin[i])) >= 2
    /\ \E k \in DOMAIN ResponseCalls(origin[i]) : SignedCall(i, k)
    /\ \E k \in DOMAIN ResponseCalls(origin[i]) : ~SignedCall(i, k)

\* C26: in every request, the model turn rebuilt from a response with
\* several tool calls, only some of them with a thoughtSignature, has the
\* same calls in the same order (name and arguments), each call that came
\* with a thoughtSignature carrying that same one and each call that came
\* without one carrying none.
C26_TokenStaysOnItsCall ==
    \A i \in 1..sentLen :
        PartlySigned(i) =>
            LET sent == FunctionCalls(body["contents"][WireIndex(i)]["parts"])
                got == ResponseCalls(origin[i])
            IN  /\ Len(sent) = Len(got)
                /\ \A k \in DOMAIN got :
                     /\ sent[k]["functionCall"]["name"]
                          = got[k]["functionCall"]["name"]
                     /\ sent[k]["functionCall"]["args"]
                          = got[k]["functionCall"]["args"]
                     /\ IF SignedCall(i, k)
                        THEN /\ "thoughtSignature" \in DOMAIN sent[k]
                             /\ sent[k]["thoughtSignature"]
                                  = got[k]["thoughtSignature"]
                        ELSE "thoughtSignature" \notin DOMAIN sent[k]

\* a request that replays a turn whose first call only was signed and a
\* later turn whose second call only was signed
C26_Witness ==
    \E i, j \in 1..sentLen :
        /\ i < j
        /\ PartlySigned(i) /\ SignedCall(i, 1) /\ ~SignedCall(i, 2)
        /\ PartlySigned(j) /\ ~SignedCall(j, 1) /\ SignedCall(j, 2)
        /\ "thoughtSignature" \notin DOMAIN
             FunctionCalls(body["contents"][WireIndex(j)]["parts"])[1]
        /\ FunctionCalls(body["contents"][WireIndex(j)]["parts"])[2]["thoughtSignature"]
             = "sigD"

\* ===================================================================
\* Properties of the wire turns (SpecConv)
\* ===================================================================

\* the wire turn was made of the message: the text of a user turn, the id
\* of the call a tool-result turn answers, the ids of the calls of an
\* assistant turn (its text when it has no calls)
MadeOf(turn, msg) ==
    CASE msg["role"] = "user" ->
           turn["parts"] = <<[text |-> msg["content"]]>>
      [] msg["role"] = "tool" ->
           /\ Len(turn["parts"]) = 1
           /\ "functionResponse" \in DOMAIN turn["parts"][1]
           /\ turn["parts"][1]["functionResponse"]["id"] = msg["tool_call_id"]
      [] OTHER ->
           LET tcs == Get(msg, "tool_calls", <<>>)
               sent == FunctionCalls(turn["parts"])
           IN  /\ Len(sent) = Len(tcs)
               /\ \A k \in DOMAIN tcs :
                    sent[k]["functionCall"]["id"] = tcs[k]["id"]
               /\ tcs = <<>> => Len(turn["parts"]) = 1
                                /\ "text" \in DOMAIN turn["parts"][1]

\* C27: the request has one wire turn per turn of the history that is no
\* system turn, in the order of the history; its role is user for a user
\* turn and for a tool-result turn and model for an assistant turn, and no
\* other role occurs.
C27_TwoWireRolesInOrder ==
    sentLen > 0 =>
        /\ Len(body["contents"]) = WireIndex(sentLen)
        /\ \A n \in DOMAIN body["contents"] :
             body["contents"][n]["role"] \in {"user", "model"}
        /\ \A i \in 1..sentLen :
             messages[i]["role"] # "system" =>
                LET turn == body["contents"][WireIndex(i)]
                IN  /\ turn["role"] = IF messages[i]["role"] = "assistant"
                                      THEN "model" ELSE "user"
                    /\ MadeOf(turn, messages[i])

\* a request built from a history with a system turn between a user turn,
\* an assistant turn with calls and a tool-result turn
C27_Witness ==
    /\ sentLen >= 4
    /\ \E i, j, k, l \in 1..sentLen :
         /\ i < j /\ j < k /\ k < l
         /\ messages[i]["role"] = "user"
         /\ messages[j]["role"] = "assistant"
         /\ messages[k]["role"] = "tool"
         /\ messages[l]["role"] = "system"
         /\ body["contents"][WireIndex(k)]["role"] = "user"
         /\ body["contents"][WireIndex(j)]["role"] = "model"
    /\ Len(body["contents"]) = sentLen - 1

\* ===================================================================
\* Properties of assistant turns with tool calls (SpecConv)
\* ===================================================================

\* C28: in every request, an assistant turn with k tool calls is one model
\* turn whose parts are a text part with the prose of the turn when that is
\* not empty, and then k function-call parts in the order of the calls,
\* each with the name, the id and the arguments of its call, the arguments
\* as the object that their JSON text denotes.
C28_TextThenCalls ==
    \A i \in 1..sentLen :
        (messages[i]["role"] = "assistant"
           /\ Get(messages[i], "tool_calls", <<>>) # <<>>) =>
            LET turn == body["contents"][WireIndex(i)]
                tcs == messages[i]["tool_calls"]
                content == messages[i]["content"]
                lead == IF Truthy(content) THEN 1 ELSE 0
            IN  /\ turn["role"] = "model"
                /\ Len(turn["parts"]) = lead + Len(tcs)
                /\ lead = 1 => turn["parts"][1] = [text |-> content]
                /\ \A k \in DOMAIN tcs :
                     LET part == turn["parts"][lead + k]
                     IN  /\ "functionCall" \in DOMAIN part
                         /\ "text" \notin DOMAIN part
                         /\ part["functionCall"]["name"]
                              = tcs[k]["function"]["name"]
                         /\ part["functionCall"]["id"] = tcs[k]["id"]
                         /\ part["functionCall"]["args"].t = "dict"
                         /\ Dumps(part["functionCall"]["args"])
                              = tcs[k]["function"]["arguments"].v

\* a request with the model turns of prose followed by one call and of two
\* calls without prose
C28_Witness ==
    \E i, j \in 1..sentLen :
        /\ messages[i]["role"] = "assistant" /\ messages[j]["role"] = "assistant"
        /\ Truthy(messages[i]["content"])
        /\ Len(Get(messages[i], "tool_calls", <<>>)) = 1
        /\ ~Truthy(messages[j]["content"])
        /\ Len(Get(messages[j], "tool_calls", <<>>)) = 2
        /\ Len(body["contents"][WireIndex(i)]["parts"]) = 2
        /\ Len(body["contents"][WireIndex(j)]["parts"]) = 2
        /\ "text" \in DOMAIN body["contents"][WireIndex(i)]["parts"][1]

\* ===================================================================
\* Properties of the name of a tool result (SpecConv)
\* ===================================================================

\* the assistant turns before turn i that have a call with this id
PriorCallers(i, id) ==
    {j \in 1..(i - 1) :
        /\ messages[j]["role"] = "assistant"
        /\ \E k \in DOMAIN Get(messages[j], "tool_calls", <<>>) :
             messages[j]["tool_calls"][k]["id"] = id}

\* the name of the first call with this id in turn j
NameInTurn(j, id) ==
    LET tcs == messages[j]["tool_calls"]
        k == CHOOSE n \in DOMAIN tcs :
               /\ tcs[n]["id"] = id
               /\ \A m \in DOMAIN tcs : tcs[m]["id"] = id => n <= m
    IN  tcs[k]["function"]["name"]

\* C29: in every request, the function-result part of a tool-result turn
\* without a name carries the name of the call with its tool_call_id in the
\* nearest assistant turn before it, whatever calls with that id the
\* assistant turns after it hold.
C29_NameFromNearestPriorCall ==
    \A i \in 1..sentLen :
        (/\ messages[i]["role"] = "tool"
         /\ "name" \notin DOMAIN messages[i]
         /\ PriorCallers(i, messages[i]["tool_call_id"]) # {}) =>
            LET P == PriorCallers(i, messages[i]["tool_call_id"])
                j == CHOOSE n \in P : \A m \in P : m <= n
            IN  body["contents"][WireIndex(i)]["parts"][1]["functionResponse"]["name"]
                  = NameInTurn(j, messages[i]["tool_call_id"])

\* ===================================================================
\* Properties of the model id on the wire (SpecEnvelope)
\* ===================================================================

\* s without its last n characters
DropLast(s, n) == SubSeq(s, 1, Len(s) - n)

\* C30: a name that the table does not hold resolves to itself; the model
\* id of the envelope, at top level and in the request, is the resolved id
\* without its trailing -high or -low when the model was given a thinking
\* level, and the resolved id itself in every other case.
C30_OnlyLevelSuffixRemoved ==
    fnOut.stage = "envelope" =>
        LET api_model == _resolve_model(fnIn.model)
            cfg == fnOut.body.request["generationConfig"]
            leveled == /\ "thinkingConfig" \in DOMAIN cfg
                       /\ "thinkingLevel" \in DOMAIN cfg.thinkingConfig
            expected == IF leveled /\ EndsWith(api_model, "-high")
                        THEN DropLast(api_model, 5)
                        ELSE IF leveled /\ EndsWith(api_model, "-low")
                        THEN DropLast(api_model, 4)
                        ELSE api_model
        IN  /\ fnIn.model \notin DOMAIN _MODEL_MAP => api_model = fnIn.model
            /\ fnOut.body.model = expected
            /\ fnOut.body.request["model"] = expected

\* ===================================================================
\* Properties of the generation config (SpecEnvelope)
\* ===================================================================

\* C31: for a resolved id that contains both "claude" and "thinking" the
\* request carries a thinking_budget and a maxOutputTokens strictly greater
\* than it, and not lower than the caller's max_tokens; for a resolved id
\* that is not thinking-capable (neither "gemini-3" nor "thinking" in it) no
\* thinkingConfig is sent and maxOutputTokens is the caller's max_tokens.
C31_CeilingAboveBudget ==
    fnOut.stage = "envelope" =>
        LET api_model == _resolve_model(fnIn.model)
            cfg == fnOut.body.request["generationConfig"]
        IN  /\ (Contains(api_model, "claude") /\ Contains(api_model, "thinking")) =>
                  /\ "thinkingConfig" \in DOMAIN cfg
                  /\ "thinking_budget" \in DOMAIN cfg.thinkingConfig
                  /\ cfg.maxOutputTokens > cfg.thinkingConfig.thinking_budget
                  /\ cfg.maxOutputTokens >= fnIn.max_tokens
            /\ ~(Contains(api_model, "gemini-3") \/ Contains(api_model, "thinking")) =>
                  /\ "thinkingConfig" \notin DOMAIN cfg
                  /\ cfg.maxOutputTokens = fnIn.max_tokens

\* the caller asked claude-opus for fewer tokens than the thinking budget
\* and the ceiling of the request was raised above it
C31_Witness ==
    /\ fnOut.stage = "envelope"
    /\ fnIn.model = "anthropic/claude-opus-4.6"
    /\ fnIn.max_tokens = 16384
    /\ fnOut.body.request["generationConfig"].thinkingConfig.thinking_budget = 32768
    /\ fnOut.body.request["generationConfig"].maxOutputTokens = 65536

\* ===================================================================
\* Properties of the parsed answer (SpecParse)
\* ===================================================================

\* the parts of the answer that are not flagged as reasoning
Remaining == SelectSeq(fnIn.parts, LAMBDA q : ~("thought" \in DOMAIN q /\ q.thought))

RemainingTexts == SelectSeq(Remaining, LAMBDA q : "text" \in DOMAIN q)

RemainingCalls ==
    SelectSeq(Remaining, LAMBDA q : "text" \notin DOMAIN q
                                     /\ "functionCall" \in DOMAIN q)

\* the texts one per line
RECURSIVE Lines(_)
Lines(parts) ==
    IF parts = <<>> THEN <<>>
    ELSE IF Len(parts) = 1 THEN parts[1].text
    ELSE parts[1].text \o <<Word("\n")>> \o Lines(Tail(parts))

\* the tool calls of the parsed message
ParsedCalls == Get(fnOut.msg, "tool_calls", <<>>)

\* C32: the parts flagged as reasoning add nothing to the parsed message:
\* its content is the texts of the other text parts in part order, one per
\* line (None when there is none), and its tool_calls holds one record per
\* other function-call part, in part order, with that part's name and
\* arguments.
C32_ThoughtsDropped ==
    fnOut.stage = "parsed" =>
        /\ fnOut.msg.content = IF RemainingTexts = <<>> THEN NoneV
                               ELSE Str(Lines(RemainingTexts))
        /\ Len(ParsedCalls) = Len(RemainingCalls)
        /\ \A n \in 1..Len(ParsedCalls) :
             /\ ParsedCalls[n].function.name
                  = RemainingCalls[n].functionCall.name
             /\ ParsedCalls[n].function.arguments
                  = Str(Dumps(RemainingCalls[n].functionCall.args))
        /\ ("tool_calls" \in DOMAIN fnOut.msg) = (RemainingCalls # <<>>)

\* a reasoning text, a text, and a call flagged as reasoning: one line of
\* content and no tool call
C32_Witness ==
    /\ fnOut.stage = "parsed"
    /\ Len(fnIn.parts) = 3
    /\ "thought" \in DOMAIN fnIn.parts[1] /\ "text" \in DOMAIN fnIn.parts[1]
    /\ fnIn.parts[2] = [text |-> <<Word("checking")>>]
    /\ "thought" \in DOMAIN fnIn.parts[3]
    /\ "functionCall" \in DOMAIN fnIn.parts[3]
    /\ fnOut.msg.content = Str(<<Word("checking")>>)
    /\ "tool_calls" \notin DOMAIN fnOut.msg

\* C33: every tool-call record of the parsed message has a non-empty id:
\* the id of the provider when the function-call part holds one, and
\* otherwise call_{n} for the n-th (from 0) function-call part that gave a
\* record.
C33_EveryCallHasId ==
    fnOut.stage = "parsed" =>
        \A n \in 1..Len(ParsedCalls) :
            /\ ParsedCalls[n].id # ""
            /\ n <= Len(RemainingCalls)
            /\ ParsedCalls[n].id
                 = IF "id" \in DOMAIN RemainingCalls[n].functionCall
                   THEN RemainingCalls[n].functionCall.id
                   ELSE CallId(n - 1)

\* a call with the provider's id c1 followed by two calls without id: the
\* ids are c1, call_1 and call_2
C33_Witness ==
    /\ fnOut.stage = "parsed"
    /\ Len(ParsedCalls) = 3
    /\ ParsedCalls[1].id = "c1"
    /\ "id" \notin DOMAIN fnIn.parts[2].functionCall
    /\ "id" \notin DOMAIN fnIn.parts[3].functionCall
    /\ ParsedCalls[2].id = "call_1"
    /\ ParsedCalls[3].id = "call_2"

\* C35: the ids of the tool calls of one parsed assistant turn are pairwise
\* distinct.
C35_IdsDistinctInTurn ==
    fnOut.stage = "parsed" =>
        \A m, n \in 1..Len(ParsedCalls) :
            m # n => ParsedCalls[m].id # ParsedCalls[n].id

\* the object that holds the candidates of the answer: the "response"
\* member of an outer envelope, the answer itself otherwise
PayloadOf(data, shape) ==
    IF shape \in {"wrapped", "nested"} THEN data.response ELSE data

\* C34: the answer inside an outer envelope is unwrapped one level, and
\* only one; an answer whose "response" member holds no candidates, or
\* that has no such member, is parsed as it is; the message and the usage
\* both come from that one object.
C34_UnwrappedOnce ==
    fnOut.stage = "parsed" =>
        LET payload == PayloadOf(fnIn.data, fnIn.shape)
        IN  /\ "candidates" \in DOMAIN payload
            /\ payload["candidates"][1].content.parts = fnIn.parts
            /\ fnOut.msg = _google_to_openai_message(payload)
            /\ fnOut.usage = _extract_usage(payload)
            /\ fnOut.usage.prompt_tokens = 3
            /\ fnOut.usage.total_tokens = 5

\* a text inside the outer envelope whose own usage count is 9: the
\* message is the text and the usage is the one of the inner object
C34_Witness ==
    /\ fnOut.stage = "parsed"
    /\ fnIn.shape = "wrapped"
    /\ fnIn.parts = <<[text |-> <<Word("done")>>]>>
    /\ fnIn.data.usageMetadata.promptTokenCount = 9
    /\ fnOut.msg = [role |-> "assistant", content |-> Str(<<Word("done")>>)]
    /\ fnOut.usage.prompt_tokens = 3

\* ===================================================================
\* Properties of the verifier of a login attempt (SpecAttempt)
\* ===================================================================

\* C36: the step of a login attempt that calls exchange_code hands it the
\* verifier that get_auth_url generated for the attempt, whatever state
\* came with the code.
C36_VerifierOfThisAttempt ==
    [][calls' # calls => login'.verifier = login.verifier]_vars

\* ===================================================================
\* Properties of the endpoint loop (SpecChatFair)
\* ===================================================================

\* the k-th request of the call was answered with a success
Succeeded(k) == log[k].resp.kind = "http" /\ log[k].resp.status = 200

\* the requests of the call so far: at most two to each endpoint, the
\* second being the retry after a 401, the endpoints in the order of the
\* list, none after a success
RequestsInOrder ==
    /\ Len(log) <= 2 * Len(ENDPOINTS)
    /\ \A e \in DOMAIN ENDPOINTS :
         Cardinality({k \in DOMAIN log : log[k].ep = e}) <= 2
    /\ \A k \in DOMAIN log :
         /\ log[k].ep \in DOMAIN ENDPOINTS
         /\ k = 1 => log[k].ep = 1 /\ ~log[k].retry
         /\ k > 1 =>
              /\ ~Succeeded(k - 1)
              /\ \/ /\ log[k].retry /\ ~log[k - 1].retry
                    /\ log[k].ep = log[k - 1].ep
                    /\ log[k - 1].resp.status = 401
                 \/ /\ ~log[k].retry
                    /\ log[k].ep = log[k - 1].ep + 1

\* chat has given its caller one thing: the pair or an error
OneOutcome ==
    /\ pc = "returned" =>
         /\ outcome.kind = "return"
         /\ DOMAIN outcome.res = {"msg", "usage"}
         /\ log # <<>> /\ Succeeded(Len(log))
    /\ pc = "raised" => outcome.kind \notin {"return", "none"}
    /\ pc \notin {"returned", "raised"} => outcome = NoOutcome

\* a step of a call that has come to its end changes nothing of it
EndIsFinal ==
    pc \in {"returned", "raised"} => UNCHANGED <<pc, outcome, log>>

\* C37: a chat call that has begun comes to its end, a returned pair or a
\* raised error and never both or a second one, having sent at most two
\* requests to each endpoint, in the order of the list, and none after a
\* success.
C37_ChatTerminatesOnce ==
    /\ [](RequestsInOrder /\ OneOutcome)
    /\ [][EndIsFinal]_vars
    /\ [](pc # "idle" => <>(pc \in {"returned", "raised"}))

\* every endpoint answered 401 and failed again after the refresh: the call
\* raised after two requests to each
C37_Witness ==
    /\ pc = "raised"
    /\ outcome.kind = "AllFailed"
    /\ Len(log) = 2 * Len(ENDPOINTS)
    /\ \A e \in DOMAIN ENDPOINTS : log[2 * e - 1].resp.status = 401

\* ===================================================================
\* Properties of what the token calls leave alone (SpecFrame)
\* ===================================================================

\* the records a and b agree on field k: both lack it or both hold the
\* same value
SameField(a, b, k) ==
    /\ (k \in DOMAIN a) = (k \in DOMAIN b)
    /\ k \in DOMAIN a => a[k] = b[k]

\* C38: a refresh, called by itself or through get_access_token, changes
\* no field of the record but access_token, expires_at and, when the answer
\* held a new one, refresh_token, so email and project_id are after it what
\* they were before; a call that was not answered with a success, the
\* cache hit among them, leaves the whole record; get_project_id and
\* is_logged_in leave the whole record.
C38_OnlyTokenFieldsChange ==
    /\ \A i \in DOMAIN calls :
         LET c == calls[i]
             after == StoredAfter(i)
         IN  /\ SameField(c.before, after, "email")
             /\ SameField(c.before, after, "project_id")
             /\ \A k \in (DOMAIN c.before \cup DOMAIN after)
                           \ {"access_token", "expires_at", "refresh_token"} :
                  SameField(c.before, after, k)
             /\ ~c.rotated => SameField(c.before, after, "refresh_token")
             /\ c.answer # "ok" => after = c.before
    /\ "op" \in DOMAIN fnOut => fnOut.after = fnOut.before

\* the record of the logged-in user after a refresh with rotation and a
\* get_project_id: its tokens are new, its email and project_id are there
\* and the project is the one returned
C38_Witness ==
    /\ calls # <<>>
    /\ calls[Len(calls)].answer = "ok" /\ calls[Len(calls)].rotated
    /\ calls[Len(calls)].before = LoggedIn
    /\ stored["access_token"] # LoggedIn["access_token"]
    /\ stored["refresh_token"] # LoggedIn["refresh_token"]
    /\ stored["email"] = LoggedIn["email"]
    /\ "op" \in DOMAIN fnOut /\ fnOut.op = "get_project_id"
    /\ fnOut.before = stored
    /\ fnOut.result = LoggedIn["project_id"]

\* ===================================================================
\* Properties of a rejected refresh inside chat (SpecChat)
\* ===================================================================

\* the get_access_token that this step of chat made was rejected by the
\* token endpoint
RefreshRejected == calls' # <<>> /\ calls'[Len(calls')].kind = "HTTPError"

\* the step that ends a refresh rejected after a 401: the failure is the
\* one of the endpoint that answered 401, no second request goes to it, and
\* chat goes on to the next endpoint or, after the last, to the error that
\* cites this failure
AbsorbedAt401 ==
    (pc = "refresh401" /\ pc' # "refresh401" /\ RefreshRejected) =>
        /\ last_error'.fmt = "Error on"
        /\ last_error'.endpoint = ENDPOINTS[idx]
        /\ log' = log
        /\ IF idx < Len(ENDPOINTS)
           THEN pc' = "post" /\ idx' = idx + 1 /\ outcome' = NoOutcome
           ELSE /\ pc' = "raised"
                /\ outcome' = [kind |-> "AllFailed", last |-> last_error']

\* the step that ends the get_access_token at the start of chat when it
\* was rejected: the error is the caller's, no endpoint was contacted
RaisedAtStart ==
    (pc = "idle" /\ pc' # "idle" /\ RefreshRejected) =>
        /\ pc' = "raised"
        /\ outcome'.kind = "HTTPError"
        /\ log' = <<>>

\* C39: a refresh that the token endpoint rejects is absorbed as the
\* failure of the current endpoint when the refresh followed a 401, and
\* reaches the caller before any request to a generation endpoint when it
\* was the get_access_token at the start of chat.
C39_RejectedRefreshInChat ==
    [][AbsorbedAt401 /\ RaisedAtStart]_vars

\* the first endpoint answered 401, the refresh was rejected, and chat is
\* about to post to the second endpoint
C39_Witness ==
    /\ pc = "post" /\ idx = 2
    /\ Len(log) = 1 /\ log[1].resp.status = 401
    /\ calls # <<>> /\ calls[Len(calls)].kind = "HTTPError"
    /\ last_error.fmt = "Error on"
    /\ last_error.endpoint = ENDPOINTS[1]
    /\ outcome = NoOutcome

====
